---------------------------- MODULE Spec2Model ----------------------------
(***************************************************************************)
(* A model of the ingestion pipeline and of the agent loop of the          *)
(* Local-RAG-Chatbot repository (src/injection.py, src/retrieval.py,       *)
(* src/main.py, src/streamlit_app.py).                                     *)
(*                                                                         *)
(* The module holds several state machines, one per component, each with   *)
(* its own variables and its own specification:                            *)
(*   SpecChunk   _estimate_tokens and _chunk_sentences                     *)
(* While one component runs the variables of the others stay parked.       *)
(*                                                                         *)
(* Texts are sequences: a sentence is a sequence of words, a raw page is a *)
(* sequence of characters, a model output is a sequence of lexical tokens. *)
(***************************************************************************)
EXTENDS Integers, Sequences, FiniteSets, TLC

(***************************************************************************)
(* State.  Each component has its own variables.                           *)
(***************************************************************************)
VARIABLES
    \* _chunk_sentences (src/injection.py)
    ck_sentences,   \* the argument `sentences`
    ck_max,         \* the argument `max_tokens`
    ck_overlap,     \* the argument `overlap_tokens`
    ck_chunks,      \* the returned list of chunks
    ck_pc,          \* "ready" before the call, "done" after it
    \* _normalize_page_text (src/injection.py)
    nm_raw,         \* the argument `raw`
    nm_once,        \* _normalize_page_text(raw)
    nm_twice,       \* _normalize_page_text(_normalize_page_text(raw))
    nm_pc,          \* "ready", "once", "twice"
    \* deterministic_id and the id seed of inject_dataset (src/injection.py)
    id_a,           \* a chunk's (source, page, index, content)
    id_b,           \* the same chunk with at most one field changed
    id_changed,     \* the field in which id_b differs from id_a, or "none"
    id_uidA,        \* the uid computed for id_a
    id_uidB,        \* the uid computed for id_b
    id_pc,          \* "ready", "changed", "done"
    \* the failure memory and the agent loop (src/retrieval.py)
    FAILED_ACTIONS, \* the module-level list of (action, action_input) pairs
    ag_pc,          \* "Idle", "Thinking", "Acting", "Finished", "Raised"
    ag_result,      \* what ForgivingReActParser.parse returned last
    ag_steps,       \* parse steps taken for the current query
    ag_queries,     \* queries sent so far
    \* one call of ForgivingReActParser.parse (src/retrieval.py)
    ps_text,        \* the argument `text`
    ps_before,      \* FAILED_ACTIONS when the call starts
    ps_result,      \* the value returned, or the exception raised
    ps_pc,          \* "ready", "done"
    \* run_agent (src/main.py), get_bot_response (src/streamlit_app.py)
    rn_pc,          \* "loop", "after_loop", "done"
    rn_attempt,     \* the local `attempt`
    rn_response,    \* the local `response`; at "done" the text surfaced
    rn_agentRuns,   \* calls of agent.run made
    rn_llmCalls,    \* calls of llm.invoke made
    rn_loop,        \* how agent.run ended last, and with what
    rn_llm,         \* how llm.invoke ended, and with what
    \* inject_dataset (src/injection.py), called run after run on one file
    ig_file,        \* the file: what each extraction strategy yields for it
    ig_use_mcp,     \* the argument `use_mcp_parser`
    ig_ready,       \* what client.is_ready() answers to the current call
    ig_run,         \* the number of the current call
    ig_pc,          \* "parse", "connect", "check", "insert", "returned", "raised"
    ig_chunks,      \* the local `chunks`
    ig_parser,      \* how the chunks were obtained: "local", "remote", "fallback"
    ig_collection,  \* whether the topic's collection exists in the store
    ig_store,       \* the ids of the objects stored in the collection
    ig_results,     \* the local `results` of the gathered existence checks
    ig_raised,      \* the positions whose existence check raised
    ig_ids,         \* the local `ids`, as passed to add_texts
    ig_addCalls,    \* add_texts calls issued by the current call
    ig_history,     \* outcome, chunks and store of the earlier calls
    \* pdf_to_chunks_async with the local strategy (src/injection.py)
    pg_pages,       \* the sentences of each page of the file, page by page
    pg_max,         \* the argument `max_tokens`
    pg_overlap,     \* the argument `overlap_tokens`
    pg_chunks,      \* the returned `all_chunks`
    pg_pc,          \* "ready", "done"
    \* _estimate_tokens (src/injection.py)
    es_text,        \* the argument `text`: characters "w" and blanks "SP"
    es_tokens,      \* the value returned
    es_pc,          \* "ready", "done"
    \* setup_tools_async (src/retrieval.py)
    tl_datasets,    \* the argument `datasets`: a sequence of <<file, topic>>
    tl_vectorstores,\* the keys of the argument `vectorstores`, in order
    tl_tools,       \* the names of the tools returned, in order
    tl_pc,          \* "ready", "done"
    \* OllamaEmbedding._safe_embed (src/embeddings.py)
    em_retries,     \* self.retries
    em_cache,       \* self.cache: normalized text -> vector
    em_text,        \* the argument `text` of the call in progress
    em_attempt,     \* the loop variable `attempt`
    em_calls,       \* ollama.embed calls made by the call in progress
    em_sleeps,      \* time.sleep calls made by the call in progress
    em_result,      \* what the call returned or raised
    em_before,      \* the cache when the call in progress began
    em_first,       \* normalized text -> the first vector returned for it
    em_n,           \* calls of _safe_embed begun so far
    em_pc,          \* "idle", "trying", "returned", "raised"
    \* two inject_dataset calls gathered on one event loop (src/agent_script.py)
    rc_file,        \* the file both calls ingest
    rc_use_mcp,     \* use_mcp_parser of both calls
    rc_pc,          \* per call: "parse", "connect", "check", "returned", "raised"
    rc_chunks,      \* per call: `chunks`
    rc_results,     \* per call: each existence check "pending", "present", "absent"
    rc_ids,         \* per call: `ids`, as passed to add_texts
    rc_failures,    \* existence checks that raised so far
    rc_collection,  \* whether the collection of the topic exists
    rc_store,       \* the collection: id -> number of objects stored under it
    \* queries answered in parallel, one thread per send_query (src/main.py)
    th_pc,          \* per thread: "Idle", "Thinking", "Test", "Append", "Ceiling", "Acting", "Finished"
    th_text,        \* per thread: the model output being parsed
    th_absent,      \* per thread: what `not in FAILED_ACTIONS` evaluated to
    th_result,      \* per thread: the last result of the parser or of the loop
    th_steps,       \* per thread: iterations of the loop so far
    th_own          \* per thread: the pairs this query's own outputs recorded

chunkVars == <<ck_sentences, ck_max, ck_overlap, ck_chunks, ck_pc>>

normVars == <<nm_raw, nm_once, nm_twice, nm_pc>>

idVars == <<id_a, id_b, id_changed, id_uidA, id_uidB, id_pc>>

agentVars == <<FAILED_ACTIONS, ag_pc, ag_result, ag_steps, ag_queries>>

parseVars == <<ps_text, ps_before, ps_result, ps_pc>>

runVars == <<rn_pc, rn_attempt, rn_response, rn_agentRuns, rn_llmCalls, rn_loop, rn_llm>>

ingestVars ==
    <<ig_file, ig_use_mcp, ig_ready, ig_run, ig_pc, ig_chunks, ig_parser,
      ig_collection, ig_store, ig_results, ig_raised, ig_ids, ig_addCalls,
      ig_history>>

pdfVars == <<pg_pages, pg_max, pg_overlap, pg_chunks, pg_pc>>

estVars == <<es_text, es_tokens, es_pc>>

toolsVars == <<tl_datasets, tl_vectorstores, tl_tools, tl_pc>>

embedVars ==
    <<em_retries, em_cache, em_text, em_attempt, em_calls, em_sleeps,
      em_result, em_before, em_first, em_n, em_pc>>

raceVars ==
    <<rc_file, rc_use_mcp, rc_pc, rc_chunks, rc_results, rc_ids, rc_failures, rc_collection, rc_store>>

threadsVars == <<th_pc, th_text, th_absent, th_result, th_steps, th_own>>

vars ==
    <<chunkVars, normVars, idVars, agentVars, parseVars, runVars,
      ingestVars, pdfVars, estVars, toolsVars, embedVars, raceVars,
      threadsVars>>

\* The variables a component leaves alone: those of the other components.
exceptChunk ==
    <<normVars, idVars, agentVars, parseVars, runVars,
      ingestVars, pdfVars, estVars, toolsVars, embedVars, raceVars,
      threadsVars>>

exceptNorm ==
    <<chunkVars, idVars, agentVars, parseVars, runVars,
      ingestVars, pdfVars, estVars, toolsVars, embedVars, raceVars,
      threadsVars>>

exceptId ==
    <<chunkVars, normVars, agentVars, parseVars, runVars,
      ingestVars, pdfVars, estVars, toolsVars, embedVars, raceVars,
      threadsVars>>

exceptAgent ==
    <<chunkVars, normVars, idVars, parseVars, runVars,
      ingestVars, pdfVars, estVars, toolsVars, embedVars, raceVars,
      threadsVars>>

\* A single parse call works on FAILED_ACTIONS too.
exceptParse ==
    <<chunkVars, normVars, idVars, runVars, ingestVars,
      pdfVars, estVars, toolsVars, embedVars, raceVars, threadsVars, ag_pc,
      ag_result, ag_steps, ag_queries>>

exceptRun ==
    <<chunkVars, normVars, idVars, agentVars, parseVars,
      ingestVars, pdfVars, estVars, toolsVars, embedVars, raceVars,
      threadsVars>>

exceptIngest ==
    <<chunkVars, normVars, idVars, agentVars, parseVars,
      runVars, pdfVars, estVars, toolsVars, embedVars, raceVars, threadsVars>>

exceptPdf ==
    <<chunkVars, normVars, idVars, agentVars, parseVars,
      runVars, ingestVars, estVars, toolsVars, embedVars, raceVars,
      threadsVars>>

exceptEst ==
    <<chunkVars, normVars, idVars, agentVars, parseVars,
      runVars, ingestVars, pdfVars, toolsVars, embedVars, raceVars,
      threadsVars>>

exceptTools ==
    <<chunkVars, normVars, idVars, agentVars, parseVars,
      runVars, ingestVars, pdfVars, estVars, embedVars, raceVars, threadsVars>>

exceptEmbed ==
    <<chunkVars, normVars, idVars, agentVars, parseVars,
      runVars, ingestVars, pdfVars, estVars, toolsVars, raceVars, threadsVars>>

exceptRace ==
    <<chunkVars, normVars, idVars, agentVars, parseVars,
      runVars, ingestVars, pdfVars, estVars, toolsVars, embedVars,
      threadsVars>>

exceptThreads ==
    <<chunkVars, normVars, idVars, parseVars, runVars,
      ingestVars, pdfVars, estVars, toolsVars, embedVars, raceVars, ag_pc,
      ag_result, ag_steps, ag_queries>>

(***************************************************************************)
(* Generic helpers on sequences.                                           *)
(***************************************************************************)
\* All sequences over S of length 0..n.
SeqsUpTo(S, n) == UNION {[1..k -> S] : k \in 0..n}

Max(a, b) == IF a >= b THEN a ELSE b

Min(a, b) == IF a <= b THEN a ELSE b

Last(s) == s[Len(s)]

\* Python's s[k:] for 0-based k, as a 1-based TLA+ sequence.
Drop(s, k) == SubSeq(s, k + 1, Len(s))

\* Python's s[:k].
Take(s, k) == SubSeq(s, 1, k)

Range(s) == {s[i] : i \in 1..Len(s)}

\* Optional[int]: None is the empty tuple, the number n the tuple <<n>>.
None == <<>>

Some(n) == <<n>>

(***************************************************************************)
(* Bounds of the chunker's inputs.                                         *)
(***************************************************************************)
MaxSents == 4
MaxWords == 3
MaxBudget == 5
MaxOverlap == 3

(***************************************************************************)
(* Chunker: src/injection.py, _estimate_tokens and _chunk_sentences.       *)
(* A sentence is a non-empty sequence of words (what str.split() yields),  *)
(* the " ".join of sentences is the concatenation of their words.          *)
(***************************************************************************)
Word == "w"

Sentence(n) == [i \in 1..n |-> Word]

\* Mutant: the product is rounded to the nearest integer, halves upward.
RoundedEstimate(words) == (13 * words + 5) \div 10

\* int(words * 1.3): the float product truncated toward zero.  For every
\* word count below 100000 it equals the integer quotient (13 * words) / 10.
TruncatedEstimate(words) == (13 * words) \div 10

\* _estimate_tokens(text): max(1, int(len(text.split()) * 1.3)).
EstimateTokens(text) == Max(1, TruncatedEstimate(Len(text)))

\* " ".join(current).strip() where current lists positions in `sentences`.
RECURSIVE JoinSentences(_, _)
JoinSentences(sentences, current) ==
    IF current = <<>> THEN <<>>
    ELSE sentences[current[1]] \o JoinSentences(sentences, Tail(current))

\* sum(_estimate_tokens(s) for s in current)
RECURSIVE SumEstimates(_, _)
SumEstimates(sentences, current) ==
    IF current = <<>> THEN 0
    ELSE EstimateTokens(sentences[current[1]])
         + SumEstimates(sentences, Tail(current))

\* Mutant: the loop stops only once acc exceeds overlap_tokens.
RECURSIVE OverlapStartStrict(_, _, _, _, _)
OverlapStartStrict(sentences, current, k, acc, overlap_tokens) ==
    LET acc2 == acc + EstimateTokens(sentences[current[k]])
    IN  IF acc2 > overlap_tokens \/ k = 1 THEN k
        ELSE OverlapStartStrict(sentences, current, k - 1, acc2, overlap_tokens)

\* The overlap loop, lines 102-108: walk `current` backwards from position k,
\* add the sentence, stop as soon as acc >= overlap_tokens.  The result is the
\* index in `current` of the first sentence of the window.
RECURSIVE OverlapStart(_, _, _, _, _)
OverlapStart(sentences, current, k, acc, overlap_tokens) ==
    LET acc2 == acc + EstimateTokens(sentences[current[k]])
    IN  IF acc2 >= overlap_tokens \/ k = 1 THEN k
        ELSE OverlapStart(sentences, current, k - 1, acc2, overlap_tokens)

\* Mutant: with overlap_tokens = 0 the window is empty.
OverlapWindowEmptyAtZero(sentences, current, overlap_tokens) ==
    IF overlap_tokens <= 0 THEN <<>>
    ELSE Drop(current,
              OverlapStart(sentences, current, Len(current), 0, overlap_tokens) - 1)

\* Mutant: the window keeps the first sentence of `current`, not the last ones.
OverlapWindowFromStart(sentences, current, overlap_tokens) == Take(current, 1)

\* overlap: the trailing sentences of `current` kept for the next chunk.
OverlapWindow(sentences, current, overlap_tokens) ==
    Drop(current,
         OverlapStart(sentences, current, Len(current), 0, overlap_tokens) - 1)

\* Chunk(content, page=None, index, tokens=_estimate_tokens(content), source="").
\* `sents` is a ghost field: the positions of the sentences joined in content.
MakeChunk(sentences, current, index) ==
    LET content == JoinSentences(sentences, current)
    IN  [content |-> content, page |-> None, index |-> index,
         tokens |-> EstimateTokens(content), source |-> "", sents |-> current]

\* The for loop of lines 94-113 from sentence i on; st holds the locals
\* chunks, current, current_tokens and running_index.
RECURSIVE ChunkLoop(_, _, _, _, _)
ChunkLoop(sentences, i, st, max_tokens, overlap_tokens) ==
    IF i > Len(sentences) THEN st
    ELSE
      LET t == EstimateTokens(sentences[i])
      IN  IF st.current # <<>> /\ st.current_tokens + t > max_tokens
          THEN LET next == OverlapWindow(sentences, st.current, overlap_tokens)
                           \o <<i>>
               IN ChunkLoop(sentences, i + 1,
                    [chunks |-> Append(st.chunks,
                                  MakeChunk(sentences, st.current, st.running_index)),
                     current |-> next,
                     current_tokens |-> SumEstimates(sentences, next),
                     running_index |-> st.running_index + 1],
                    max_tokens, overlap_tokens)
          ELSE ChunkLoop(sentences, i + 1,
                    [st EXCEPT !.current = Append(@, i),
                               !.current_tokens = @ + t],
                    max_tokens, overlap_tokens)

\* Mutant: the guards `if not sentences` and `if current` are left out and a
\* last chunk is always emitted.
ChunkSentencesAlwaysFlush(sentences, max_tokens, overlap_tokens) ==
    LET st == ChunkLoop(sentences, 1,
                  [chunks |-> <<>>, current |-> <<>>,
                   current_tokens |-> 0, running_index |-> 0],
                  max_tokens, overlap_tokens)
    IN  Append(st.chunks, MakeChunk(sentences, st.current, st.running_index))

\* _chunk_sentences(sentences, max_tokens, overlap_tokens)
ChunkSentences(sentences, max_tokens, overlap_tokens) ==
    IF sentences = <<>> THEN <<>>
    ELSE
      LET st == ChunkLoop(sentences, 1,
                    [chunks |-> <<>>, current |-> <<>>,
                     current_tokens |-> 0, running_index |-> 0],
                    max_tokens, overlap_tokens)
      IN  IF st.current # <<>>
          THEN Append(st.chunks, MakeChunk(sentences, st.current, st.running_index))
          ELSE st.chunks

ChunkInit ==
    /\ ck_sentences \in SeqsUpTo({Sentence(n) : n \in 1..MaxWords}, MaxSents)
    /\ ck_max \in 1..MaxBudget
    /\ ck_overlap \in 0..MaxOverlap
    /\ ck_chunks = <<>>
    /\ ck_pc = "ready"

ChunkParked ==
    /\ ck_sentences = <<>>
    /\ ck_max = 1
    /\ ck_overlap = 0
    /\ ck_chunks = <<>>
    /\ ck_pc = "parked"

\* One call of _chunk_sentences.
CallChunkSentences ==
    /\ ck_pc = "ready"
    /\ ck_chunks' = ChunkSentences(ck_sentences, ck_max, ck_overlap)
    /\ ck_pc' = "done"
    /\ UNCHANGED <<ck_sentences, ck_max, ck_overlap>>
    /\ UNCHANGED exceptChunk

ChunkNext == CallChunkSentences

(***************************************************************************)
(* Text normalizer: src/injection.py, _normalize_page_text.                *)
(* A raw text is a sequence of characters: "a" stands for a word character *)
(* (\w), "-" for the hyphen, "LF", "CR", "SP" and "TAB" for the whitespace *)
(* characters \n, \r, space and \t.                                        *)
(***************************************************************************)
MaxRawLen == 8

RawAlphabet == {"a", "-", "LF", "SP"}

IsWordChar(c) == c = "a"

\* What \s matches, and what str.strip() removes.
IsSpace(c) == c \in {"LF", "CR", "SP", "TAB"}

\* raw.replace("\r\n", "\n")
RECURSIVE ReplaceCRLF(_)
ReplaceCRLF(t) ==
    IF t = <<>> THEN <<>>
    ELSE IF Len(t) >= 2 /\ t[1] = "CR" /\ t[2] = "LF"
         THEN <<"LF">> \o ReplaceCRLF(Drop(t, 2))
         ELSE <<t[1]>> \o ReplaceCRLF(Tail(t))

\* .replace("\r", "\n")
ReplaceCR(t) == [i \in 1..Len(t) |-> IF t[i] = "CR" THEN "LF" ELSE t[i]]

\* The first position >= i of t that holds no whitespace, Len(t) + 1 if none.
RECURSIVE SkipSpace(_, _)
SkipSpace(t, i) ==
    IF i > Len(t) \/ ~IsSpace(t[i]) THEN i ELSE SkipSpace(t, i + 1)

\* Whether (\w)-\s*\n\s*(\w) matches t at position i: a word character, a
\* hyphen, a run of whitespace that holds a line feed, a word character.
HyphenMatchAt(t, i) ==
    /\ i + 1 <= Len(t)
    /\ IsWordChar(t[i])
    /\ t[i + 1] = "-"
    /\ LET j == SkipSpace(t, i + 2)
       IN  /\ j <= Len(t)
           /\ IsWordChar(t[j])
           /\ \E k \in (i + 2)..(j - 1) : t[k] = "LF"

\* Mutant: the second word character is a lookahead and is not consumed, so
\* it can open the next match.
RECURSIVE MergeHyphensOverlapping(_, _)
MergeHyphensOverlapping(t, i) ==
    IF i > Len(t) THEN <<>>
    ELSE IF HyphenMatchAt(t, i)
         THEN <<t[i]>> \o MergeHyphensOverlapping(t, SkipSpace(t, i + 2))
         ELSE <<t[i]>> \o MergeHyphensOverlapping(t, i + 1)

\* re.sub(r"(\w)-\s*\n\s*(\w)", r"\1\2", t) from position i on: matches are
\* taken leftmost first and do not overlap, the scan resumes after the match.
RECURSIVE MergeHyphens(_, _)
MergeHyphens(t, i) ==
    IF i > Len(t) THEN <<>>
    ELSE IF HyphenMatchAt(t, i)
         THEN LET j == SkipSpace(t, i + 2)
              IN  <<t[i], t[j]>> \o MergeHyphens(t, j + 1)
         ELSE <<t[i]>> \o MergeHyphens(t, i + 1)

\* re.sub(r"(?<!\n)\n(?!\n)", " ", t): a line feed with no line feed next to it.
JoinSingleNewlines(t) ==
    [i \in 1..Len(t) |->
        IF /\ t[i] = "LF"
           /\ (i = 1 \/ t[i - 1] # "LF")
           /\ (i = Len(t) \/ t[i + 1] # "LF")
        THEN "SP" ELSE t[i]]

\* The first position >= i of t that holds no character of S.
RECURSIVE SkipRun(_, _, _)
SkipRun(t, i, S) ==
    IF i > Len(t) \/ t[i] \notin S THEN i ELSE SkipRun(t, i + 1, S)

\* re.sub(<S>{n,}, repl, t) from position i on: every maximal run of at least
\* n characters of S becomes repl.
RECURSIVE CollapseRuns(_, _, _, _, _)
CollapseRuns(t, i, S, n, repl) ==
    IF i > Len(t) THEN <<>>
    ELSE IF t[i] \in S
         THEN LET e == SkipRun(t, i, S)
              IN  (IF e - i >= n THEN repl ELSE SubSeq(t, i, e - 1))
                  \o CollapseRuns(t, e, S, n, repl)
         ELSE <<t[i]>> \o CollapseRuns(t, i + 1, S, n, repl)

\* str.strip(chars): drop the leading and trailing characters that are in S.
RECURSIVE StripSet(_, _)
StripSet(t, S) ==
    IF t = <<>> THEN <<>>
    ELSE IF t[1] \in S THEN StripSet(Tail(t), S)
    ELSE IF Last(t) \in S THEN StripSet(Take(t, Len(t) - 1), S)
    ELSE t

\* str.strip(): drop the leading and trailing whitespace.
Strip(t) == StripSet(t, {"LF", "CR", "SP", "TAB"})

\* _normalize_page_text(raw)
NormalizePageText(raw) ==
    IF raw = <<>> THEN <<>>
    ELSE
      LET t1 == ReplaceCR(ReplaceCRLF(raw))
          t2 == MergeHyphens(t1, 1)
          t3 == JoinSingleNewlines(t2)
          t4 == CollapseRuns(t3, 1, {"SP", "TAB"}, 2, <<"SP">>)
          t5 == CollapseRuns(t4, 1, {"LF"}, 3, <<"LF", "LF">>)
      IN  Strip(t5)

NormInit ==
    /\ nm_raw \in SeqsUpTo(RawAlphabet, MaxRawLen)
    /\ nm_once = <<>>
    /\ nm_twice = <<>>
    /\ nm_pc = "ready"

NormParked ==
    /\ nm_raw = <<>>
    /\ nm_once = <<>>
    /\ nm_twice = <<>>
    /\ nm_pc = "parked"

\* norm = _normalize_page_text(raw)
NormalizeRaw ==
    /\ nm_pc = "ready"
    /\ nm_once' = NormalizePageText(nm_raw)
    /\ nm_pc' = "once"
    /\ UNCHANGED <<nm_raw, nm_twice>>
    /\ UNCHANGED exceptNorm

\* _normalize_page_text(norm): the normalizer applied to its own output.
NormalizeAgain ==
    /\ nm_pc = "once"
    /\ nm_twice' = NormalizePageText(nm_once)
    /\ nm_pc' = "twice"
    /\ UNCHANGED <<nm_raw, nm_once>>
    /\ UNCHANGED exceptNorm

NormNext == NormalizeRaw \/ NormalizeAgain

(***************************************************************************)
(* Deterministic identifier: src/injection.py, deterministic_id and the    *)
(* id seed built by inject_dataset.  Strings are sequences of characters,  *)
(* numbers are formatted in decimal as str() does.                         *)
(***************************************************************************)
MaxStrLen == 2
MaxPage == 10
MaxIndex == 2

StrAlphabet == {"a", "|"}

\* Non-empty strings: a file name, a chunk's content.
Strings == SeqsUpTo(StrAlphabet, MaxStrLen) \ {<<>>}

\* Chunk.page: Optional[int].
Pages == {None} \cup {Some(n) : n \in 0..MaxPage}

DigitChar(d) ==
    CASE d = 0 -> "0" [] d = 1 -> "1" [] d = 2 -> "2" [] d = 3 -> "3"
      [] d = 4 -> "4" [] d = 5 -> "5" [] d = 6 -> "6" [] d = 7 -> "7"
      [] d = 8 -> "8" [] d = 9 -> "9"

\* str(n) for n >= 0
RECURSIVE Decimal(_)
Decimal(n) ==
    IF n < 10 THEN <<DigitChar(n)>>
    ELSE Decimal(n \div 10) \o <<DigitChar(n % 10)>>

\* ch.page if ch.page is not None else 0
PageOrZero(page) == IF page # None THEN page[1] ELSE 0

\* Mutant: the chunk index is left out of the seed.
IdSeedNoIndex(ch) ==
    ch.source \o <<"|", "p">> \o Decimal(PageOrZero(ch.page))
              \o <<"|", "c">> \o <<"|">> \o ch.content

\* f"{ch.source}|p{ch.page if ch.page is not None else 0}|c{ch.index}|{ch.content}"
IdSeed(ch) ==
    ch.source \o <<"|", "p">> \o Decimal(PageOrZero(ch.page))
              \o <<"|", "c">> \o Decimal(ch.index) \o <<"|">> \o ch.content

\* str(uuid.uuid5(uuid.NAMESPACE_DNS, text)): a hash of the namespace and the
\* text, taken to be free of collisions.
DeterministicId(text) == <<"uuid5", "NAMESPACE_DNS", text>>

ChunkKeys == [source : Strings, page : Pages, index : 0..MaxIndex, content : Strings]

IdInit ==
    /\ id_a \in ChunkKeys
    /\ id_b = id_a
    /\ id_changed = "none"
    /\ id_uidA = <<>>
    /\ id_uidB = <<>>
    /\ id_pc = "ready"

IdParked ==
    /\ id_a = <<>>
    /\ id_b = <<>>
    /\ id_changed = "none"
    /\ id_uidA = <<>>
    /\ id_uidB = <<>>
    /\ id_pc = "parked"

\* The second chunk is taken from another file.
ChangeSource ==
    /\ id_pc = "ready"
    /\ \E v \in Strings \ {id_a.source} : id_b' = [id_a EXCEPT !.source = v]
    /\ id_changed' = "source"
    /\ id_pc' = "changed"
    /\ UNCHANGED <<id_a, id_uidA, id_uidB>>
    /\ UNCHANGED exceptId

\* The second chunk is on another page (or on none, or on one instead of none).
ChangePage ==
    /\ id_pc = "ready"
    /\ \E v \in Pages \ {id_a.page} : id_b' = [id_a EXCEPT !.page = v]
    /\ id_changed' = "page"
    /\ id_pc' = "changed"
    /\ UNCHANGED <<id_a, id_uidA, id_uidB>>
    /\ UNCHANGED exceptId

\* The second chunk has another index.
ChangeIndex ==
    /\ id_pc = "ready"
    /\ \E v \in (0..MaxIndex) \ {id_a.index} : id_b' = [id_a EXCEPT !.index = v]
    /\ id_changed' = "index"
    /\ id_pc' = "changed"
    /\ UNCHANGED <<id_a, id_uidA, id_uidB>>
    /\ UNCHANGED exceptId

\* The second chunk has another content.
ChangeContent ==
    /\ id_pc = "ready"
    /\ \E v \in Strings \ {id_a.content} : id_b' = [id_a EXCEPT !.content = v]
    /\ id_changed' = "content"
    /\ id_pc' = "changed"
    /\ UNCHANGED <<id_a, id_uidA, id_uidB>>
    /\ UNCHANGED exceptId

\* uid = deterministic_id(id_seed), for both chunks (lines 310-311).
ComputeIds ==
    /\ id_pc \in {"ready", "changed"}
    /\ id_uidA' = DeterministicId(IdSeed(id_a))
    /\ id_uidB' = DeterministicId(IdSeed(id_b))
    /\ id_pc' = "done"
    /\ UNCHANGED <<id_a, id_b, id_changed>>
    /\ UNCHANGED exceptId

IdNext ==
    \/ ChangeSource
    \/ ChangePage
    \/ ChangeIndex
    \/ ChangeContent
    \/ ComputeIds

(***************************************************************************)
(* Forgiving parser: src/retrieval.py, ForgivingReActParser.parse.         *)
(* A model output is a sequence of lexical tokens: "FA" stands for the     *)
(* marker "Final Answer:", "ACT" for "Action:", "AIN" for "Action Input:", *)
(* "LF" for a line break, "SP" for a blank, "Q" for a double quote, "x"    *)
(* and "y" for words.                                                      *)
(***************************************************************************)
MAX_FAILURES == 3

MaxTextLen == 3

ParseTokens == {"FA", "ACT", "AIN", "LF", "SP", "Q", "x"}

Texts == SeqsUpTo(ParseTokens, MaxTextLen)

\* marker in text
Contains(text, m) == m \in Range(text)

\* text.find(m) as a 1-based position; m occurs in text.
FirstIndex(text, m) ==
    CHOOSE i \in 1..Len(text) :
        text[i] = m /\ \A j \in 1..(i - 1) : text[j] # m

\* text.split(m): the list of the parts between the occurrences of m.
RECURSIVE Split(_, _)
Split(text, m) ==
    IF ~Contains(text, m) THEN <<text>>
    ELSE LET i == FirstIndex(text, m)
         IN  <<Take(text, i - 1)>> \o Split(Drop(text, i), m)

\* .split("\n")[0]
FirstLine(t) == Split(t, "LF")[1]

\* [\s]* at the start of a regex group: the leading whitespace is skipped.
SkipLeadingSpace(t) == Drop(t, SkipSpace(t, 1) - 1)

NoValue == <<>>

AgentAction(tool, tool_input) ==
    [kind |-> "AgentAction", tool |-> tool, tool_input |-> tool_input,
     output |-> NoValue]

AgentFinish(output) ==
    [kind |-> "AgentFinish", tool |-> NoValue, tool_input |-> NoValue,
     output |-> output]

\* An exception that leaves the call.
Raised(exception) ==
    [kind |-> exception, tool |-> NoValue, tool_input |-> NoValue,
     output |-> NoValue]

\* No call was made yet.
NoResult ==
    [kind |-> "none", tool |-> NoValue, tool_input |-> NoValue,
     output |-> NoValue]

\* "ERROR (em dash) Too many failed tool attempts. Stopping.", line 40
TooManyFailures == <<"ERROR - Too many failed tool attempts. Stopping.">>

\* super().parse(text), line 24: langchain's ReActSingleInputOutputParser.
\* Its regex Action\s*\d*\s*:[\s]*(.*?)[\s]*Action\s*\d*\s*Input\s*\d*\s*:[\s]*(.*)
\* matches when an "Action:" is followed, anywhere later, by an "Action Input:".
\* A match together with "Final Answer:" raises, a match alone is an action,
\* "Final Answer:" alone is a finish, neither raises.
StrictParse(text) ==
    LET includes_answer == Contains(text, "FA")
        rest == IF Contains(text, "ACT")
                THEN Drop(text, FirstIndex(text, "ACT")) ELSE <<>>
        action_match == Contains(rest, "AIN")
    IN  IF action_match
        THEN IF includes_answer THEN Raised("OutputParserException")
             ELSE LET i == FirstIndex(rest, "AIN")
                  IN  AgentAction(Strip(Take(rest, i - 1)),
                          StripSet(StripSet(SkipLeadingSpace(Drop(rest, i)),
                                            {"SP"}), {"Q"}))
        ELSE IF includes_answer
             THEN AgentFinish(Strip(Last(Split(text, "FA"))))
             ELSE Raised("OutputParserException")

\* Mutant: only the "Action:" marker is tested before both markers are split on.
HasActionMarkerOnly(text) == Contains(text, "ACT")

\* "Action:" in text and "Action Input:" in text, line 31
HasActionMarkers(text) == Contains(text, "ACT") /\ Contains(text, "AIN")

\* text.split("Action:")[1].split("\n")[0].strip(), line 32
RecoveredAction(text) == Strip(FirstLine(Split(text, "ACT")[2]))

\* text.split("Action Input:")[1].split("\n")[0].strip().strip('"'), line 33
RecoveredInput(text) ==
    StripSet(Strip(FirstLine(Split(text, "AIN")[2])), {"Q"})

\* Lines 35-36: the pair is appended unless it is already in the list.
RecordFailure(failed, pair) ==
    IF pair \notin Range(failed) THEN Append(failed, pair) ELSE failed

\* Mutant: the ceiling is not tested; the recovered action is always returned.
RecoveredResultNoCeiling(failed, action, action_input) ==
    AgentAction(action, action_input)

\* Lines 38-44: at the ceiling the diagnostic finish, below it the action.
RecoveredResult(failed, action, action_input) ==
    IF Len(failed) >= MAX_FAILURES
    THEN AgentFinish(TooManyFailures)
    ELSE AgentAction(action, action_input)

\* The except branch, lines 25-47, for a text the strict parser rejected.
\* The value is the result together with FAILED_ACTIONS after the call.
Recover(text, failed) ==
    IF Contains(text, "FA")
    THEN [result |-> AgentFinish(Strip(Last(Split(text, "FA")))),
          failed |-> failed]
    ELSE IF HasActionMarkers(text)
    THEN IF Len(Split(text, "ACT")) < 2 \/ Len(Split(text, "AIN")) < 2
         THEN [result |-> Raised("IndexError"), failed |-> failed]
         ELSE LET action == RecoveredAction(text)
                  action_input == RecoveredInput(text)
                  failed2 == RecordFailure(failed, <<action, action_input>>)
              IN  [result |-> RecoveredResult(failed2, action, action_input),
                   failed |-> failed2]
    ELSE [result |-> AgentFinish(Strip(text)), failed |-> failed]

\* ForgivingReActParser.parse(text) with FAILED_ACTIONS = failed.
ForgivingParse(text, failed) ==
    LET strict == StrictParse(text)
    IN  IF strict.kind # "OutputParserException"
        THEN [result |-> strict, failed |-> failed]
        ELSE Recover(text, failed)

\* Malformed outputs the parser recovers an action from, with four distinct
\* (action, action_input) pairs.
RecoverableOutputs ==
    {<<"AIN", i, "LF", "ACT", a>> : i \in {"x", "y"}, a \in {"x", "y"}}

\* Failure memories left by earlier parse calls: lists without repetition of
\* pairs recovered from RecoverableOutputs.
PriorFailures ==
    LET pairs == {<<RecoveredAction(t), RecoveredInput(t)>> : t \in RecoverableOutputs}
    IN  {f \in SeqsUpTo(pairs, Cardinality(pairs)) :
            \A i, j \in 1..Len(f) : i # j => f[i] # f[j]}

ParseInit ==
    /\ ps_text \in Texts
    /\ FAILED_ACTIONS \in PriorFailures
    /\ ps_before = FAILED_ACTIONS
    /\ ps_result = NoResult
    /\ ps_pc = "ready"
    /\ ag_pc = "parked"
    /\ ag_result = NoResult
    /\ ag_steps = 0
    /\ ag_queries = 0

ParseParked ==
    /\ ps_text = <<>>
    /\ ps_before = <<>>
    /\ ps_result = NoResult
    /\ ps_pc = "parked"

\* One call of ForgivingReActParser.parse.
CallParse ==
    /\ ps_pc = "ready"
    /\ LET r == ForgivingParse(ps_text, FAILED_ACTIONS)
       IN  /\ ps_result' = r.result
           /\ FAILED_ACTIONS' = r.failed
    /\ ps_pc' = "done"
    /\ UNCHANGED <<ps_text, ps_before>>
    /\ UNCHANGED exceptParse

ParseNext == CallParse

(***************************************************************************)
(* Agent loop: the executor that initialize_agent builds (src/retrieval.py *)
(* create_agent) run by agent.run(query) (src/main.py run_agent): the      *)
(* model's output is parsed, an action invokes its tool and the loop goes  *)
(* on, a finish ends the query.  FAILED_ACTIONS outlives the queries.      *)
(***************************************************************************)
MaxQueries == 2
MaxSteps == 3

\* What the model may emit in a step: a well-formed action, final answers,
\* an action together with a final answer, malformed actions, plain text.
ModelOutputs ==
    {<<"ACT", "x", "LF", "AIN", "Q", "x", "Q">>,
     <<"FA", "x">>,
     <<"FA">>,
     <<"ACT", "x", "LF", "AIN", "x", "LF", "FA", "x">>,
     <<"x">>}
    \cup RecoverableOutputs

AgentInit ==
    /\ FAILED_ACTIONS = <<>>
    /\ ag_pc = "Idle"
    /\ ag_result = NoResult
    /\ ag_steps = 0
    /\ ag_queries = 0

AgentParked ==
    /\ FAILED_ACTIONS = <<>>
    /\ ag_pc = "parked"
    /\ ag_result = NoResult
    /\ ag_steps = 0
    /\ ag_queries = 0

\* agent.run(query): a query enters the loop.
SendQuery ==
    /\ ag_pc = "Idle"
    /\ ag_queries < MaxQueries
    /\ ag_pc' = "Thinking"
    /\ ag_steps' = 0
    /\ ag_queries' = ag_queries + 1
    /\ UNCHANGED <<FAILED_ACTIONS, ag_result>>
    /\ UNCHANGED exceptAgent

\* The model emits a text and the output parser parses it.
Think ==
    /\ ag_pc = "Thinking"
    /\ ag_steps < MaxSteps
    /\ \E text \in ModelOutputs :
          LET r == ForgivingParse(text, FAILED_ACTIONS)
          IN  /\ ag_result' = r.result
              /\ FAILED_ACTIONS' = r.failed
              /\ ag_pc' = CASE r.result.kind = "AgentAction" -> "Acting"
                            [] r.result.kind = "AgentFinish" -> "Finished"
                            [] OTHER -> "Raised"
    /\ ag_steps' = ag_steps + 1
    /\ UNCHANGED ag_queries
    /\ UNCHANGED exceptAgent

\* The executor's iteration limit ends the query.
IterationLimit ==
    /\ ag_pc = "Thinking"
    /\ ag_steps = MaxSteps
    /\ ag_result' = AgentFinish(<<"Agent stopped due to iteration limit or time limit.">>)
    /\ ag_pc' = "Finished"
    /\ UNCHANGED <<FAILED_ACTIONS, ag_steps, ag_queries>>
    /\ UNCHANGED exceptAgent

\* The tool named by the action is invoked and returns an observation.
ToolReturns ==
    /\ ag_pc = "Acting"
    /\ ag_pc' = "Thinking"
    /\ UNCHANGED <<FAILED_ACTIONS, ag_result, ag_steps, ag_queries>>
    /\ UNCHANGED exceptAgent

\* The tool raises: the exception leaves agent.run.
ToolRaises ==
    /\ ag_pc = "Acting"
    /\ ag_pc' = "Raised"
    /\ ag_result' = Raised("Exception")
    /\ UNCHANGED <<FAILED_ACTIONS, ag_steps, ag_queries>>
    /\ UNCHANGED exceptAgent

\* agent.run returns (or raises) to run_agent; the next query may come.
EndQuery ==
    /\ ag_pc \in {"Finished", "Raised"}
    /\ ag_pc' = "Idle"
    /\ UNCHANGED <<FAILED_ACTIONS, ag_result, ag_steps, ag_queries>>
    /\ UNCHANGED exceptAgent

AgentNext ==
    \/ SendQuery
    \/ Think
    \/ IterationLimit
    \/ ToolReturns
    \/ ToolRaises
    \/ EndQuery

(***************************************************************************)
(* Top-level retry and fallback: run_agent (src/main.py) and the identical *)
(* get_bot_response (src/streamlit_app.py).  A response is a sequence of   *)
(* tokens: "SP" is a blank, the other tokens are pieces of text.           *)
(***************************************************************************)
max_retries == 1

MaxRespLen == 2

RespTokens ==
    {"SP", "x", "ERROR", "Error", "error",
     "Could not parse LLM output", "could not parse llm output"}

\* What agent.run or llm.invoke may return.
Responses == SeqsUpTo(RespTokens, MaxRespLen)

\* str(e) of an exception that agent.run or llm.invoke raises.
Messages == {<<>>, <<"x">>}

\* str.lower, token by token
LowerToken(c) ==
    CASE c \in {"ERROR", "Error"} -> "error"
      [] c = "Could not parse LLM output" -> "could not parse llm output"
      [] OTHER -> c

\* response.strip().lower()
StripLower(response) ==
    LET t == Strip(response) IN [i \in 1..Len(t) |-> LowerToken(t[i])]

\* response.strip().lower().startswith(prefix)
StartsWith(response, prefix) ==
    Len(StripLower(response)) >= 1 /\ StripLower(response)[1] = prefix

\* if response and not response.strip().lower().startswith("error"): break
LoopAccepts(response) == response # <<>> /\ ~StartsWith(response, "error")

\* The condition of the fallback, line 141
NeedsFallback(response) ==
    \/ StartsWith(response, "error")
    \/ StartsWith(response, "could not parse llm output")

\* f"Error: {str(e)}"
ErrorText(e) == <<"Error", ": ">> \o e

\* f"Total failure: {fallback_error}"
TotalFailureText(e) == <<"Total failure: ">> \o e

\* `attempt < max_retries` decides whether the loop goes round again.
AfterAttempt(attempt) == IF attempt < max_retries THEN "loop" ELSE "after_loop"

NotCalled == [outcome |-> "none", value |-> <<>>]

\* Lines 127-129.
RunInit ==
    /\ rn_pc = AfterAttempt(0)
    /\ rn_attempt = 0
    /\ rn_response = <<>>
    /\ rn_agentRuns = 0
    /\ rn_llmCalls = 0
    /\ rn_loop = NotCalled
    /\ rn_llm = NotCalled

RunParked ==
    /\ rn_pc = "parked"
    /\ rn_attempt = 0
    /\ rn_response = <<>>
    /\ rn_agentRuns = 0
    /\ rn_llmCalls = 0
    /\ rn_loop = NotCalled
    /\ rn_llm = NotCalled

\* One turn of the while loop in which agent.run(query) returns.
AgentRunReturns ==
    /\ rn_pc = "loop"
    /\ \E out \in Responses :
          /\ rn_response' = out
          /\ rn_loop' = [outcome |-> "returned", value |-> out]
          /\ IF LoopAccepts(out)
             THEN rn_attempt' = rn_attempt /\ rn_pc' = "after_loop"
             ELSE rn_attempt' = rn_attempt + 1
                  /\ rn_pc' = AfterAttempt(rn_attempt + 1)
    /\ rn_agentRuns' = rn_agentRuns + 1
    /\ UNCHANGED <<rn_llmCalls, rn_llm>>
    /\ UNCHANGED exceptRun

\* One turn of the while loop in which agent.run(query) raises.
AgentRunRaises ==
    /\ rn_pc = "loop"
    /\ \E e \in Messages :
          /\ rn_response' = ErrorText(e)
          /\ rn_loop' = [outcome |-> "raised", value |-> e]
    /\ rn_attempt' = rn_attempt + 1
    /\ rn_pc' = AfterAttempt(rn_attempt + 1)
    /\ rn_agentRuns' = rn_agentRuns + 1
    /\ UNCHANGED <<rn_llmCalls, rn_llm>>
    /\ UNCHANGED exceptRun

\* The fallback is not taken: the loop's response is surfaced.
NoFallback ==
    /\ rn_pc = "after_loop"
    /\ ~NeedsFallback(rn_response)
    /\ rn_pc' = "done"
    /\ UNCHANGED <<rn_attempt, rn_response, rn_agentRuns, rn_llmCalls, rn_loop, rn_llm>>
    /\ UNCHANGED exceptRun

\* The fallback is taken and llm.invoke(query) returns a string.
LlmInvokeReturns ==
    /\ rn_pc = "after_loop"
    /\ NeedsFallback(rn_response)
    /\ \E raw_response \in Responses :
          /\ rn_response' = raw_response
          /\ rn_llm' = [outcome |-> "returned", value |-> raw_response]
    /\ rn_llmCalls' = rn_llmCalls + 1
    /\ rn_pc' = "done"
    /\ UNCHANGED <<rn_attempt, rn_agentRuns, rn_loop>>
    /\ UNCHANGED exceptRun

\* The fallback is taken and llm.invoke(query) raises.
LlmInvokeRaises ==
    /\ rn_pc = "after_loop"
    /\ NeedsFallback(rn_response)
    /\ \E e \in Messages :
          /\ rn_response' = TotalFailureText(e)
          /\ rn_llm' = [outcome |-> "raised", value |-> e]
    /\ rn_llmCalls' = rn_llmCalls + 1
    /\ rn_pc' = "done"
    /\ UNCHANGED <<rn_attempt, rn_agentRuns, rn_loop>>
    /\ UNCHANGED exceptRun

RunNext ==
    \/ AgentRunReturns
    \/ AgentRunRaises
    \/ NoFallback
    \/ LlmInvokeReturns
    \/ LlmInvokeRaises

(***************************************************************************)
(* Ingestion: inject_dataset (src/injection.py) called twice in sequence   *)
(* on one unchanged file and one topic.  The extraction pipeline is        *)
(* summarised by the chunk sequence it yields; the chunks of a page are    *)
(* numbered from 0.  The store overwrites by id.                           *)
(***************************************************************************)
MaxPages == 2
MaxPerPage == 1
MaxCheckFailures == 1

\* Path(file_path).name
FileName == <<"a">>

\* The chunks appended for one page (or for a whole text file): n chunks with
\* index 0 .. n-1.
PageChunks(page, n, content) ==
    [i \in 1..n |-> [content |-> content, page |-> page, index |-> i - 1,
                     tokens |-> 1, source |-> FileName]]

\* The chunks appended for the pages numbered pagenos, counts[k] chunks for the
\* k-th of them.
RECURSIVE PdfChunks(_, _, _)
PdfChunks(pagenos, counts, content) ==
    IF pagenos = <<>> THEN <<>>
    ELSE PageChunks(Some(Head(pagenos)), Head(counts), content)
         \o PdfChunks(Tail(pagenos), Tail(counts), content)

\* enumerate(reader.pages, start=1)
LocalPageNumbers == [k \in 1..MaxPages |-> k]

\* chunk_data.get('page', 1) of the remote response: the page numbers, or a
\* response that repeats the first page number.
RemotePageNumbers == {LocalPageNumbers, [k \in 1..MaxPages |-> 1]}

\* A PDF file: the chunks that PyPDF2 yields and the chunks that the remote
\* parser's response yields, whose text may differ from PyPDF2's.
PdfFiles ==
    {[kind |-> "pdf",
      local |-> PdfChunks(LocalPageNumbers, counts, <<"a">>),
      remote |-> PdfChunks(pagenos, counts, content)] :
        counts \in [1..MaxPages -> 0..MaxPerPage],
        pagenos \in RemotePageNumbers,
        content \in {<<"a">>, <<"a", "a">>}}

\* A text file: semantic_textfile_to_chunks gives chunks without a page.
TextFiles ==
    {[kind |-> "txt", local |-> PageChunks(None, n, <<"a">>), remote |-> <<>>] :
        n \in 0..MaxPerPage}

\* The chunks already appended when the remote attempt fails: nothing, or those
\* of the pages processed before the failure.
RemotePrefixes(remote) ==
    {Take(remote, k) : k \in {j \in 0..Len(remote) :
                                 j = Len(remote) \/ remote[j + 1].index = 0}}

\* uid = deterministic_id(id_seed), lines 310-311
Uid(ch) == DeterministicId(IdSeed(ch))

\* Mutant: a lookup that raised is answered from the store all the same.
ExistsResultsIgnoringRaise(chunks, store, raised) ==
    [i \in 1..Len(chunks) |-> Uid(chunks[i]) \in store]

\* The result of async_exists for each chunk: whether the id is stored, and
\* False where the lookup raised.
ExistsResults(chunks, store, raised) ==
    [i \in 1..Len(chunks) |-> Uid(chunks[i]) \in store /\ i \notin raised]

\* Mutant: every chunk is taken for new, whatever the existence check said.
NewIdsIgnoringResults(chunks, results) == [i \in 1..Len(chunks) |-> Uid(chunks[i])]

\* Lines 321-332: the ids of the chunks whose existence check said False.
RECURSIVE NewIds(_, _)
NewIds(chunks, results) ==
    IF chunks = <<>> THEN <<>>
    ELSE (IF ~Head(results) THEN <<Uid(Head(chunks))>> ELSE <<>>)
         \o NewIds(Tail(chunks), Tail(results))

\* Mutant: add_texts is called whether or not a chunk is new.
InsertAlways(ids) == TRUE

\* Line 334, `if texts:`: there is a new chunk to insert.
InsertNeeded(ids) == ids # <<>>

IngestInit ==
    /\ ig_file \in PdfFiles \cup TextFiles
    /\ ig_use_mcp \in BOOLEAN
    /\ ig_ready \in BOOLEAN
    /\ ig_run = 1
    /\ ig_pc = "parse"
    /\ ig_chunks = <<>>
    /\ ig_parser = "none"
    /\ ig_collection = FALSE
    /\ ig_store = {}
    /\ ig_results = <<>>
    /\ ig_raised = {}
    /\ ig_ids = <<>>
    /\ ig_addCalls = 0
    /\ ig_history = <<>>

IngestParked ==
    /\ ig_file = <<>>
    /\ ig_use_mcp = FALSE
    /\ ig_ready = FALSE
    /\ ig_run = 0
    /\ ig_pc = "parked"
    /\ ig_chunks = <<>>
    /\ ig_parser = "none"
    /\ ig_collection = FALSE
    /\ ig_store = {}
    /\ ig_results = <<>>
    /\ ig_raised = {}
    /\ ig_ids = <<>>
    /\ ig_addCalls = 0
    /\ ig_history = <<>>

\* Lines 267-270 with the local strategy: PyPDF2, or the text-file chunker.
ParseLocal ==
    /\ ig_pc = "parse"
    /\ ig_file.kind = "txt" \/ ~ig_use_mcp
    /\ ig_chunks' = ig_file.local
    /\ ig_parser' = "local"
    /\ ig_pc' = "connect"
    /\ UNCHANGED <<ig_file, ig_use_mcp, ig_ready, ig_run, ig_collection,
                   ig_store, ig_results, ig_raised, ig_ids, ig_addCalls,
                   ig_history>>
    /\ UNCHANGED exceptIngest

\* pdf_to_chunks_async with use_mcp: the remote parse succeeds.
ParseRemote ==
    /\ ig_pc = "parse"
    /\ ig_file.kind = "pdf" /\ ig_use_mcp
    /\ ig_chunks' = ig_file.remote
    /\ ig_parser' = "remote"
    /\ ig_pc' = "connect"
    /\ UNCHANGED <<ig_file, ig_use_mcp, ig_ready, ig_run, ig_collection,
                   ig_store, ig_results, ig_raised, ig_ids, ig_addCalls,
                   ig_history>>
    /\ UNCHANGED exceptIngest

\* pdf_to_chunks_async with use_mcp: the remote attempt raises, at once or
\* while the returned pages are processed, and PyPDF2 parses the file; the
\* chunks appended before the failure stay in all_chunks.
ParseRemoteFallback ==
    /\ ig_pc = "parse"
    /\ ig_file.kind = "pdf" /\ ig_use_mcp
    /\ \E done \in RemotePrefixes(ig_file.remote) :
          ig_chunks' = done \o ig_file.local
    /\ ig_parser' = "fallback"
    /\ ig_pc' = "connect"
    /\ UNCHANGED <<ig_file, ig_use_mcp, ig_ready, ig_run, ig_collection,
                   ig_store, ig_results, ig_raised, ig_ids, ig_addCalls,
                   ig_history>>
    /\ UNCHANGED exceptIngest

\* Mutant: the readiness assertion is left out.
NoReadinessAssertion(ready) == TRUE

\* assert client.is_ready(), "Weaviate not ready", line 282
ReadinessAssertion(ready) == ready

\* Lines 278-305: the store is ready; the collection is fetched or created.
ConnectReady ==
    /\ ig_pc = "connect"
    /\ ReadinessAssertion(ig_ready)
    /\ ig_collection' = TRUE
    /\ ig_pc' = "check"
    /\ UNCHANGED <<ig_file, ig_use_mcp, ig_ready, ig_run, ig_chunks,
                   ig_parser, ig_store, ig_results, ig_raised, ig_ids,
                   ig_addCalls, ig_history>>
    /\ UNCHANGED exceptIngest

\* Line 282: the store is not ready and the assertion fails.
ConnectNotReady ==
    /\ ig_pc = "connect"
    /\ ~ReadinessAssertion(ig_ready)
    /\ ig_pc' = "raised"
    /\ UNCHANGED <<ig_file, ig_use_mcp, ig_ready, ig_run, ig_chunks,
                   ig_parser, ig_collection, ig_store, ig_results, ig_raised,
                   ig_ids, ig_addCalls, ig_history>>
    /\ UNCHANGED exceptIngest

\* Lines 307-332: one existence check per chunk, gathered, then the partition
\* into present and new.
GatherExists ==
    /\ ig_pc = "check"
    /\ \E raised \in SUBSET (1..Len(ig_chunks)) :
          /\ Cardinality(raised) <= MaxCheckFailures
          /\ ig_raised' = raised
          /\ ig_results' = ExistsResults(ig_chunks, ig_store, raised)
          /\ ig_ids' = NewIds(ig_chunks, ExistsResults(ig_chunks, ig_store, raised))
    /\ ig_pc' = "insert"
    /\ UNCHANGED <<ig_file, ig_use_mcp, ig_ready, ig_run, ig_chunks,
                   ig_parser, ig_collection, ig_store, ig_addCalls,
                   ig_history>>
    /\ UNCHANGED exceptIngest

\* Lines 334-340 with texts non-empty: add_texts stores every new chunk.
AddTextsReturns ==
    /\ ig_pc = "insert"
    /\ InsertNeeded(ig_ids)
    /\ ig_store' = ig_store \cup Range(ig_ids)
    /\ ig_addCalls' = ig_addCalls + 1
    /\ ig_pc' = "returned"
    /\ UNCHANGED <<ig_file, ig_use_mcp, ig_ready, ig_run, ig_chunks,
                   ig_parser, ig_collection, ig_results, ig_raised, ig_ids,
                   ig_history>>
    /\ UNCHANGED exceptIngest

\* add_texts raises: the embedding of the new texts fails for good
\* (src/embeddings.py, _safe_embed) before anything is stored.
AddTextsRaises ==
    /\ ig_pc = "insert"
    /\ InsertNeeded(ig_ids)
    /\ ig_addCalls' = ig_addCalls + 1
    /\ ig_pc' = "raised"
    /\ UNCHANGED <<ig_file, ig_use_mcp, ig_ready, ig_run, ig_chunks,
                   ig_parser, ig_collection, ig_store, ig_results, ig_raised,
                   ig_ids, ig_history>>
    /\ UNCHANGED exceptIngest

\* Lines 337-340 with texts empty: nothing is inserted.
NothingToInsert ==
    /\ ig_pc = "insert"
    /\ ~InsertNeeded(ig_ids)
    /\ ig_pc' = "returned"
    /\ UNCHANGED <<ig_file, ig_use_mcp, ig_ready, ig_run, ig_chunks,
                   ig_parser, ig_collection, ig_store, ig_results, ig_raised,
                   ig_ids, ig_addCalls, ig_history>>
    /\ UNCHANGED exceptIngest

\* The caller runs inject_dataset a second time on the same file and topic.
SecondRun ==
    /\ ig_pc \in {"returned", "raised"}
    /\ ig_run = 1
    /\ ig_history' = Append(ig_history,
           [outcome |-> ig_pc, chunks |-> ig_chunks, store |-> ig_store,
            collection |-> ig_collection])
    /\ ig_run' = ig_run + 1
    /\ ig_pc' = "parse"
    /\ ig_chunks' = <<>>
    /\ ig_parser' = "none"
    /\ ig_results' = <<>>
    /\ ig_raised' = {}
    /\ ig_ids' = <<>>
    /\ ig_addCalls' = 0
    /\ ig_ready' \in BOOLEAN
    /\ UNCHANGED <<ig_file, ig_use_mcp, ig_collection, ig_store>>
    /\ UNCHANGED exceptIngest

IngestNext ==
    \/ ParseLocal
    \/ ParseRemote
    \/ ParseRemoteFallback
    \/ ConnectReady
    \/ ConnectNotReady
    \/ GatherExists
    \/ AddTextsReturns
    \/ AddTextsRaises
    \/ NothingToInsert
    \/ SecondRun

(***************************************************************************)
(* Page-aware chunking: the PyPDF2 branch of pdf_to_chunks_async           *)
(* (src/injection.py).  A page is the list of the sentences that           *)
(* _split_sentences finds in its normalized text, empty when the page has  *)
(* no text.                                                                *)
(***************************************************************************)
MaxPdfPages == 2
MaxPageSents == 2
MaxPdfBudget == 3
MaxPdfOverlap == 1

\* What one page may hold: sentences of one word and of two words.
PageSentences == SeqsUpTo({Sentence(1), Sentence(2)}, MaxPageSents)

\* Mutant: the index goes on counting over the pages.
RunningIndex(idx, before) == before + idx

\* for idx, ch in enumerate(page_chunks): index=idx, lines 176-180
EnumerateIndex(idx, before) == idx

\* Lines 176-183: the chunks of one page, relabelled with page and index;
\* before is len(all_chunks) when the page starts.
RelabelPage(page_chunks, pageno, before) ==
    [k \in 1..Len(page_chunks) |->
        [content |-> page_chunks[k].content, page |-> Some(pageno),
         index |-> EnumerateIndex(k - 1, before),
         tokens |-> page_chunks[k].tokens, source |-> FileName,
         sents |-> page_chunks[k].sents]]

\* The loop of lines 168-183 from page pageno on.
RECURSIVE PdfPagesFrom(_, _, _, _, _)
PdfPagesFrom(pages, pageno, all_chunks, max_tokens, overlap_tokens) ==
    IF pageno > Len(pages) THEN all_chunks
    ELSE IF pages[pageno] = <<>>
    THEN PdfPagesFrom(pages, pageno + 1, all_chunks, max_tokens, overlap_tokens)
    ELSE PdfPagesFrom(pages, pageno + 1,
             all_chunks \o RelabelPage(
                 ChunkSentences(pages[pageno], max_tokens, overlap_tokens),
                 pageno, Len(all_chunks)),
             max_tokens, overlap_tokens)

\* pdf_to_chunks_async(file_path, max_tokens, overlap_tokens, use_mcp=False)
PdfToChunks(pages, max_tokens, overlap_tokens) ==
    PdfPagesFrom(pages, 1, <<>>, max_tokens, overlap_tokens)

PdfInit ==
    /\ pg_pages \in SeqsUpTo(PageSentences, MaxPdfPages)
    /\ pg_max \in 1..MaxPdfBudget
    /\ pg_overlap \in 0..MaxPdfOverlap
    /\ pg_chunks = <<>>
    /\ pg_pc = "ready"

PdfParked ==
    /\ pg_pages = <<>>
    /\ pg_max = 1
    /\ pg_overlap = 0
    /\ pg_chunks = <<>>
    /\ pg_pc = "parked"

\* One call of pdf_to_chunks_async with the local strategy.
CallPdfToChunks ==
    /\ pg_pc = "ready"
    /\ pg_chunks' = PdfToChunks(pg_pages, pg_max, pg_overlap)
    /\ pg_pc' = "done"
    /\ UNCHANGED <<pg_pages, pg_max, pg_overlap>>
    /\ UNCHANGED exceptPdf

PdfNext == CallPdfToChunks

(***************************************************************************)
(* Token estimator: _estimate_tokens (src/injection.py) on a raw text, a   *)
(* sequence of word characters "w" and blanks "SP".                        *)
(***************************************************************************)
MaxEstLen == 6
MaxEstWords == 20

\* text.split(): the maximal runs of non-blank characters.
RECURSIVE SplitWords(_)
SplitWords(text) ==
    IF text = <<>> THEN <<>>
    ELSE IF Head(text) = "SP" THEN SplitWords(Tail(text))
    ELSE LET n == CHOOSE k \in 1..Len(text) :
                      /\ \A j \in 1..k : text[j] # "SP"
                      /\ (k = Len(text) \/ text[k + 1] = "SP")
         IN  <<Take(text, n)>> \o SplitWords(Drop(text, n))

\* n one-letter words separated by single blanks.
RECURSIVE SpacedWords(_)
SpacedWords(n) ==
    IF n = 0 THEN <<>>
    ELSE IF n = 1 THEN <<"w">>
    ELSE SpacedWords(n - 1) \o <<"SP", "w">>

\* _estimate_tokens(text) for a raw text: the words are counted after the split.
EstimateRaw(text) == EstimateTokens(SplitWords(text))

EstInit ==
    /\ es_text \in SeqsUpTo({"w", "SP"}, MaxEstLen)
                     \cup {SpacedWords(n) : n \in 0..MaxEstWords}
    /\ es_tokens = 0
    /\ es_pc = "ready"

EstParked ==
    /\ es_text = <<>>
    /\ es_tokens = 0
    /\ es_pc = "parked"

\* One call of _estimate_tokens.
CallEstimateTokens ==
    /\ es_pc = "ready"
    /\ es_tokens' = EstimateRaw(es_text)
    /\ es_pc' = "done"
    /\ UNCHANGED es_text
    /\ UNCHANGED exceptEst

EstNext == CallEstimateTokens

(***************************************************************************)
(* Tool registry: setup_tools_async (src/retrieval.py).  A topic is a      *)
(* sequence of characters; a tool name is the capitalized topic followed   *)
(* by a suffix, kept as one token since no suffix is a tail of another.    *)
(***************************************************************************)
MaxTopicLen == 2
MaxTopics == 2

TopicChars == {"a", "A", "b"}
Upper(c) == IF c = "a" THEN "A" ELSE IF c = "b" THEN "B" ELSE c
Lower(c) == IF c = "A" THEN "a" ELSE IF c = "B" THEN "b" ELSE c

\* str.capitalize(): the first character upper-cased, the rest lower-cased.
Capitalize(s) ==
    [i \in 1..Len(s) |-> IF i = 1 THEN Upper(s[i]) ELSE Lower(s[i])]

Topics == SeqsUpTo(TopicChars, MaxTopicLen) \ {<<>>}

\* f"{topic.capitalize()}Retriever" and the two PDF tools' names.
RetrieverName(topic) == Capitalize(topic) \o <<"Retriever">>
SearchPdfName(topic) == Capitalize(topic) \o <<"SearchPDF">>
SummarizePdfName(topic) == Capitalize(topic) \o <<"SummarizePDF">>
TavilyName == <<"TavilySearch">>

\* The first loop: one retriever tool per key of vectorstores.
RECURSIVE RetrieverTools(_)
RetrieverTools(topics) ==
    IF topics = <<>> THEN <<>>
    ELSE <<RetrieverName(Head(topics))>> \o RetrieverTools(Tail(topics))

\* The keys of {topic: fp for fp, topic in datasets}, in insertion order:
\* a topic that comes twice keeps its first position.
RECURSIVE TopicKeys(_, _)
TopicKeys(datasets, seen) ==
    IF datasets = <<>> THEN <<>>
    ELSE LET topic == Head(datasets)[2]
         IN  IF topic \in seen THEN TopicKeys(Tail(datasets), seen)
             ELSE <<topic>> \o TopicKeys(Tail(datasets), seen \cup {topic})

\* The second loop: a search tool and a summarize tool per topic.
RECURSIVE PdfTools(_)
PdfTools(topics) ==
    IF topics = <<>> THEN <<>>
    ELSE <<SearchPdfName(Head(topics)), SummarizePdfName(Head(topics))>>
             \o PdfTools(Tail(topics))

SetupTools(vectorstores, datasets) ==
    RetrieverTools(vectorstores) \o PdfTools(TopicKeys(datasets, {}))
        \o <<TavilyName>>

\* The datasets: up to MaxTopics pairs <<file, topic>>, file i for the i-th.
DatasetLists ==
    {[i \in 1..Len(ts) |-> <<i, ts[i]>>] : ts \in SeqsUpTo(Topics, MaxTopics)}

\* agent_script.py: vectorstores is filled from the datasets in their order.
ToolsInit ==
    /\ tl_datasets \in DatasetLists
    /\ tl_vectorstores = TopicKeys(tl_datasets, {})
    /\ tl_tools = <<>>
    /\ tl_pc = "ready"

ToolsParked ==
    /\ tl_datasets = <<>>
    /\ tl_vectorstores = <<>>
    /\ tl_tools = <<>>
    /\ tl_pc = "parked"

\* One call of setup_tools_async.
CallSetupTools ==
    /\ tl_pc = "ready"
    /\ tl_tools' = SetupTools(tl_vectorstores, tl_datasets)
    /\ tl_pc' = "done"
    /\ UNCHANGED <<tl_datasets, tl_vectorstores>>
    /\ UNCHANGED exceptTools

ToolsNext == CallSetupTools

(***************************************************************************)
(* Embedding with retry and cache: OllamaEmbedding._safe_embed             *)
(* (src/embeddings.py).  A text is a sequence of "x", blanks "SP" and line *)
(* feeds "LF"; the cache key is the MD5 of the normalized text, taken as   *)
(* the normalized text itself.                                             *)
(***************************************************************************)
MaxRetries == 3
MaxEmbedLen == 2
MaxEmbedCalls == 2

EmbedTexts == SeqsUpTo({"x", "SP", "LF"}, MaxEmbedLen)
\* The vectors the provider may return for a text.
Vectors == {1, 2}

\* text.strip(): blanks and line feeds removed at both ends.
RECURSIVE StripLeft(_)
StripLeft(t) ==
    IF t # <<>> /\ Head(t) \in {"SP", "LF"} THEN StripLeft(Tail(t)) ELSE t

RECURSIVE StripRight(_)
StripRight(t) ==
    IF t # <<>> /\ Last(t) \in {"SP", "LF"}
    THEN StripRight(Take(t, Len(t) - 1)) ELSE t

StripText(t) == StripRight(StripLeft(t))

\* text.strip().replace("\n", " ")
EmbedKey(t) ==
    LET s == StripText(t)
    IN  [i \in 1..Len(s) |-> IF s[i] = "LF" THEN "SP" ELSE s[i]]

\* self.cache[text_hash] = emb[0]
CacheStore(cache, key, emb) ==
    [k \in DOMAIN cache \cup {key} |-> IF k = key THEN emb ELSE cache[k]]

\* Mutant: the loop makes one attempt more than self.retries.
AttemptsLeftOneMore(attempt, retries) == attempt < retries + 1

\* for attempt in range(self.retries): another attempt follows.
AttemptsLeft(attempt, retries) == attempt < retries

EmptyCache == [k \in {} |-> 0]

\* The outcomes of a call: none yet, a vector returned, an exception raised.
EmbPending == [kind |-> "pending", emb |-> 0]
EmbReturned(emb) == [kind |-> "returned", emb |-> emb]
EmbRaised(name) == [kind |-> name, emb |-> 0]

EmbedInit ==
    /\ em_retries \in 0..MaxRetries
    /\ em_cache = EmptyCache
    /\ em_text = <<>>
    /\ em_attempt = 0
    /\ em_calls = 0
    /\ em_sleeps = 0
    /\ em_result = EmbPending
    /\ em_before = EmptyCache
    /\ em_first = EmptyCache
    /\ em_n = 0
    /\ em_pc = "idle"

EmbedParked ==
    /\ em_retries = 0
    /\ em_cache = EmptyCache
    /\ em_text = <<>>
    /\ em_attempt = 0
    /\ em_calls = 0
    /\ em_sleeps = 0
    /\ em_result = EmbPending
    /\ em_before = EmptyCache
    /\ em_first = EmptyCache
    /\ em_n = 0
    /\ em_pc = "parked"

\* A call begins.
BeginCall(text) ==
    /\ em_pc \in {"idle", "returned", "raised"}
    /\ em_n < MaxEmbedCalls
    /\ em_n' = em_n + 1
    /\ em_text' = text
    /\ em_before' = em_cache
    /\ em_attempt' = 0
    /\ em_calls' = 0
    /\ em_sleeps' = 0

\* if not text.strip(): raise ValueError("Empty text")
CallEmptyText ==
    \E text \in EmbedTexts :
        /\ BeginCall(text)
        /\ StripText(text) = <<>>
        /\ em_result' = EmbRaised("ValueError")
        /\ em_pc' = "raised"
        /\ UNCHANGED <<em_retries, em_cache, em_first>>
        /\ UNCHANGED exceptEmbed

\* if text_hash in self.cache: return self.cache[text_hash]
CallCacheHit ==
    \E text \in EmbedTexts :
        /\ BeginCall(text)
        /\ StripText(text) # <<>>
        /\ EmbedKey(text) \in DOMAIN em_cache
        /\ em_result' = EmbReturned(em_cache[EmbedKey(text)])
        /\ em_pc' = "returned"
        /\ UNCHANGED <<em_retries, em_cache, em_first>>
        /\ UNCHANGED exceptEmbed

\* The text is not cached: the retry loop is entered.
CallCacheMiss ==
    \E text \in EmbedTexts :
        /\ BeginCall(text)
        /\ StripText(text) # <<>>
        /\ EmbedKey(text) \notin DOMAIN em_cache
        /\ em_result' = EmbPending
        /\ em_pc' = "trying"
        /\ UNCHANGED <<em_retries, em_cache, em_first>>
        /\ UNCHANGED exceptEmbed

\* ollama.embed returns an embedding: it is cached and returned.
EmbedSucceeds ==
    \E emb \in Vectors :
        /\ em_pc = "trying"
        /\ AttemptsLeft(em_attempt, em_retries)
        /\ em_calls' = em_calls + 1
        /\ em_cache' = CacheStore(em_cache, EmbedKey(em_text), emb)
        /\ em_first' = IF EmbedKey(em_text) \in DOMAIN em_first THEN em_first
                       ELSE CacheStore(em_first, EmbedKey(em_text), emb)
        /\ em_result' = EmbReturned(emb)
        /\ em_pc' = "returned"
        /\ UNCHANGED <<em_retries, em_text, em_attempt, em_sleeps, em_before,
                       em_n>>
        /\ UNCHANGED exceptEmbed

\* ollama.embed returns a result without embeddings: the next attempt
\* follows at once.
EmbedEmpty ==
    /\ em_pc = "trying"
    /\ AttemptsLeft(em_attempt, em_retries)
    /\ em_calls' = em_calls + 1
    /\ em_attempt' = em_attempt + 1
    /\ UNCHANGED <<em_retries, em_cache, em_text, em_sleeps, em_result,
                   em_before, em_first, em_n, em_pc>>
    /\ UNCHANGED exceptEmbed

\* ollama.embed raises: a warning, a sleep of self.delay, the next attempt.
EmbedRaises ==
    /\ em_pc = "trying"
    /\ AttemptsLeft(em_attempt, em_retries)
    /\ em_calls' = em_calls + 1
    /\ em_attempt' = em_attempt + 1
    /\ em_sleeps' = em_sleeps + 1
    /\ UNCHANGED <<em_retries, em_cache, em_text, em_result, em_before,
                   em_first, em_n, em_pc>>
    /\ UNCHANGED exceptEmbed

\* The loop is over without an embedding: raise RuntimeError.
EmbedGivesUp ==
    /\ em_pc = "trying"
    /\ ~AttemptsLeft(em_attempt, em_retries)
    /\ em_result' = EmbRaised("RuntimeError")
    /\ em_pc' = "raised"
    /\ UNCHANGED <<em_retries, em_cache, em_text, em_attempt, em_calls,
                   em_sleeps, em_before, em_first, em_n>>
    /\ UNCHANGED exceptEmbed

EmbedNext ==
    \/ CallEmptyText
    \/ CallCacheHit
    \/ CallCacheMiss
    \/ EmbedSucceeds
    \/ EmbedEmpty
    \/ EmbedRaises
    \/ EmbedGivesUp

(***************************************************************************)
(* Racing ingestions: two inject_dataset calls for one file and topic,     *)
(* gathered on one event loop (async_load_all, src/agent_script.py).  A    *)
(* call gives way at its awaits: the remote parse and the gather of its    *)
(* existence checks, which run one by one on executor threads.  All else,  *)
(* add_texts included, runs without giving way.                            *)
(***************************************************************************)
MaxRaceFailures == 1

Calls == {1, 2}

\* The files of the race: PDFs of two pages and text files.
RaceFiles ==
    {[kind |-> "pdf",
      local |-> PdfChunks(<<1, 2>>, counts, <<"a">>),
      remote |-> PdfChunks(pagenos, counts, content)] :
        counts \in {<<0, 0>>, <<1, 0>>, <<1, 1>>},
        pagenos \in {<<1, 2>>, <<1, 1>>},
        content \in {<<"a">>, <<"a", "a">>}}
    \cup {[kind |-> "txt", local |-> PageChunks(None, n, <<"a">>),
           remote |-> <<>>] : n \in {0, 2}}

\* The chunk sequences that one call may extract from the file.
ParseOutcomes(file, use_mcp) ==
    IF file.kind = "pdf" /\ use_mcp
    THEN {file.remote} \cup {done \o file.local : done \in RemotePrefixes(file.remote)}
    ELSE {file.local}

\* Mutant: the store keeps one more object under an id at every insert.
StoreAppend(store, ids) ==
    [id \in DOMAIN store \cup Range(ids) |->
        (IF id \in DOMAIN store THEN store[id] ELSE 0)
        + Cardinality({i \in 1..Len(ids) : ids[i] = id})]

\* vectorstore.add_texts(texts, ids, metadatas) on a store that overwrites by
\* id: one object under each id inserted.
StoreOverwrite(store, ids) ==
    [id \in DOMAIN store \cup Range(ids) |->
        IF id \in Range(ids) THEN 1 ELSE store[id]]

EmptyStore == [id \in {} |-> 0]

\* The results of the gather as booleans: exists or not.
Gathered(results) == [i \in 1..Len(results) |-> results[i] = "present"]

RaceInit ==
    /\ rc_file \in RaceFiles
    /\ rc_use_mcp \in BOOLEAN
    /\ rc_pc = [c \in Calls |-> "parse"]
    /\ rc_chunks = [c \in Calls |-> <<>>]
    /\ rc_results = [c \in Calls |-> <<>>]
    /\ rc_ids = [c \in Calls |-> <<>>]
    /\ rc_failures = 0
    /\ rc_collection = FALSE
    /\ rc_store = EmptyStore

RaceParked ==
    /\ rc_file = <<>>
    /\ rc_use_mcp = FALSE
    /\ rc_pc = [c \in Calls |-> "parked"]
    /\ rc_chunks = [c \in Calls |-> <<>>]
    /\ rc_results = [c \in Calls |-> <<>>]
    /\ rc_ids = [c \in Calls |-> <<>>]
    /\ rc_failures = 0
    /\ rc_collection = FALSE
    /\ rc_store = EmptyStore

\* Lines 265-270: a call extracts its chunks.
RaceParse(c) ==
    /\ rc_pc[c] = "parse"
    /\ \E chunks \in ParseOutcomes(rc_file, rc_use_mcp) :
          rc_chunks' = [rc_chunks EXCEPT ![c] = chunks]
    /\ rc_pc' = [rc_pc EXCEPT ![c] = "connect"]
    /\ UNCHANGED <<rc_file, rc_use_mcp, rc_results, rc_ids, rc_failures,
                   rc_collection, rc_store>>
    /\ UNCHANGED exceptRace

\* Lines 278-315: the store is ready; the collection is fetched or created
\* and one existence check per chunk is handed to the executor.
RaceConnectReady(c) ==
    /\ rc_pc[c] = "connect"
    /\ rc_collection' = TRUE
    /\ rc_results' = [rc_results EXCEPT
                         ![c] = [i \in 1..Len(rc_chunks[c]) |-> "pending"]]
    /\ rc_pc' = [rc_pc EXCEPT ![c] = "check"]
    /\ UNCHANGED <<rc_file, rc_use_mcp, rc_chunks, rc_ids, rc_failures,
                   rc_store>>
    /\ UNCHANGED exceptRace

\* Line 282: the store is not ready and the assertion fails.
RaceConnectNotReady(c) ==
    /\ rc_pc[c] = "connect"
    /\ rc_pc' = [rc_pc EXCEPT ![c] = "raised"]
    /\ UNCHANGED <<rc_file, rc_use_mcp, rc_chunks, rc_results, rc_ids,
                   rc_failures, rc_collection, rc_store>>
    /\ UNCHANGED exceptRace

\* async_exists: collection.data.exists(uid) answers from the store as it is.
RaceCheckAnswers(c) ==
    /\ rc_pc[c] = "check"
    /\ \E i \in 1..Len(rc_chunks[c]) :
          /\ rc_results[c][i] = "pending"
          /\ rc_results' = [rc_results EXCEPT ![c][i] =
                 IF Uid(rc_chunks[c][i]) \in DOMAIN rc_store
                 THEN "present" ELSE "absent"]
    /\ UNCHANGED <<rc_file, rc_use_mcp, rc_pc, rc_chunks, rc_ids,
                   rc_failures, rc_collection, rc_store>>
    /\ UNCHANGED exceptRace

\* async_exists: the lookup raises and False is returned.
RaceCheckRaises(c) ==
    /\ rc_pc[c] = "check"
    /\ rc_failures < MaxRaceFailures
    /\ \E i \in 1..Len(rc_chunks[c]) :
          /\ rc_results[c][i] = "pending"
          /\ rc_results' = [rc_results EXCEPT ![c][i] = "absent"]
    /\ rc_failures' = rc_failures + 1
    /\ UNCHANGED <<rc_file, rc_use_mcp, rc_pc, rc_chunks, rc_ids,
                   rc_collection, rc_store>>
    /\ UNCHANGED exceptRace

\* Every check of the call has resolved: the gather returns.
RaceGathered(c) ==
    /\ rc_pc[c] = "check"
    /\ \A i \in 1..Len(rc_chunks[c]) : rc_results[c][i] # "pending"

\* Lines 317-340 with new chunks: add_texts stores them and the call returns.
RaceAddTextsReturns(c) ==
    /\ RaceGathered(c)
    /\ LET ids == NewIds(rc_chunks[c], Gathered(rc_results[c]))
       IN  /\ InsertNeeded(ids)
           /\ rc_ids' = [rc_ids EXCEPT ![c] = ids]
           /\ rc_store' = StoreOverwrite(rc_store, ids)
    /\ rc_pc' = [rc_pc EXCEPT ![c] = "returned"]
    /\ UNCHANGED <<rc_file, rc_use_mcp, rc_chunks, rc_results, rc_failures,
                   rc_collection>>
    /\ UNCHANGED exceptRace

\* add_texts raises before anything is stored.
RaceAddTextsRaises(c) ==
    /\ RaceGathered(c)
    /\ LET ids == NewIds(rc_chunks[c], Gathered(rc_results[c]))
       IN  /\ InsertNeeded(ids)
           /\ rc_ids' = [rc_ids EXCEPT ![c] = ids]
    /\ rc_pc' = [rc_pc EXCEPT ![c] = "raised"]
    /\ UNCHANGED <<rc_file, rc_use_mcp, rc_chunks, rc_results, rc_failures,
                   rc_collection, rc_store>>
    /\ UNCHANGED exceptRace

\* Lines 317-340 with no new chunk: the call returns without an insert.
RaceNothingToInsert(c) ==
    /\ RaceGathered(c)
    /\ ~InsertNeeded(NewIds(rc_chunks[c], Gathered(rc_results[c])))
    /\ rc_pc' = [rc_pc EXCEPT ![c] = "returned"]
    /\ UNCHANGED <<rc_file, rc_use_mcp, rc_chunks, rc_results, rc_ids,
                   rc_failures, rc_collection, rc_store>>
    /\ UNCHANGED exceptRace

RaceNext ==
    \/ \E c \in Calls : RaceParse(c)
    \/ \E c \in Calls : RaceConnectReady(c)
    \/ \E c \in Calls : RaceConnectNotReady(c)
    \/ \E c \in Calls : RaceCheckAnswers(c)
    \/ \E c \in Calls : RaceCheckRaises(c)
    \/ \E c \in Calls : RaceAddTextsReturns(c)
    \/ \E c \in Calls : RaceAddTextsRaises(c)
    \/ \E c \in Calls : RaceNothingToInsert(c)

(***************************************************************************)
(* Parallel queries: send_query (src/main.py) starts one thread per query  *)
(* and every thread runs the agent loop, whose parser works on the one     *)
(* module-level list FAILED_ACTIONS (src/retrieval.py).  Between the       *)
(* membership test of line 35, the append of line 36 and the length test   *)
(* of line 38 another thread may run.                                      *)
(***************************************************************************)
MaxThreadSteps == 2

Threads == {1, 2}

\* What the model may emit in a step of a parallel query.
ThreadOutputs ==
    {<<"ACT", "x", "LF", "AIN", "x">>, <<"FA", "x">>} \cup RecoverableOutputs

\* The parser takes lines 31-44 for the text: the strict parser rejects it,
\* it holds no "Final Answer:" and holds both action markers.
TakesRecovery(text) ==
    /\ StrictParse(text).kind = "OutputParserException"
    /\ ~Contains(text, "FA")
    /\ HasActionMarkers(text)

RecoveredPair(text) == <<RecoveredAction(text), RecoveredInput(text)>>

ThreadsInit ==
    /\ FAILED_ACTIONS = <<>>
    /\ th_pc = [t \in Threads |-> "Idle"]
    /\ th_text = [t \in Threads |-> <<>>]
    /\ th_absent = [t \in Threads |-> FALSE]
    /\ th_result = [t \in Threads |-> NoResult]
    /\ th_steps = [t \in Threads |-> 0]
    /\ th_own = [t \in Threads |-> <<>>]
    /\ ag_pc = "parked"
    /\ ag_result = NoResult
    /\ ag_steps = 0
    /\ ag_queries = 0

ThreadsParked ==
    /\ th_pc = [t \in Threads |-> "parked"]
    /\ th_text = [t \in Threads |-> <<>>]
    /\ th_absent = [t \in Threads |-> FALSE]
    /\ th_result = [t \in Threads |-> NoResult]
    /\ th_steps = [t \in Threads |-> 0]
    /\ th_own = [t \in Threads |-> <<>>]

\* send_query: threading.Thread(target=run_agent, ...).start()
ThreadStart(t) ==
    /\ th_pc[t] = "Idle"
    /\ th_pc' = [th_pc EXCEPT ![t] = "Thinking"]
    /\ UNCHANGED <<FAILED_ACTIONS, th_text, th_absent, th_result, th_steps,
                   th_own>>
    /\ UNCHANGED exceptThreads

\* The model emits a text that the parser settles without FAILED_ACTIONS:
\* lines 23-29 and 46-47.
ThreadParsePlain(t) ==
    /\ th_pc[t] = "Thinking"
    /\ th_steps[t] < MaxThreadSteps
    /\ \E text \in ThreadOutputs :
          /\ ~TakesRecovery(text)
          /\ th_text' = [th_text EXCEPT ![t] = text]
          /\ LET r == ForgivingParse(text, FAILED_ACTIONS).result
             IN  /\ th_result' = [th_result EXCEPT ![t] = r]
                 /\ th_pc' = [th_pc EXCEPT ![t] =
                        IF r.kind = "AgentAction" THEN "Acting" ELSE "Finished"]
    /\ th_steps' = [th_steps EXCEPT ![t] = @ + 1]
    /\ UNCHANGED <<FAILED_ACTIONS, th_absent, th_own>>
    /\ UNCHANGED exceptThreads

\* The model emits a malformed action: the parser reaches line 35.
ThreadParseRecover(t) ==
    /\ th_pc[t] = "Thinking"
    /\ th_steps[t] < MaxThreadSteps
    /\ \E text \in ThreadOutputs :
          /\ TakesRecovery(text)
          /\ th_text' = [th_text EXCEPT ![t] = text]
    /\ th_pc' = [th_pc EXCEPT ![t] = "Test"]
    /\ th_steps' = [th_steps EXCEPT ![t] = @ + 1]
    /\ UNCHANGED <<FAILED_ACTIONS, th_absent, th_result, th_own>>
    /\ UNCHANGED exceptThreads

\* Line 35: (action, action_input) not in FAILED_ACTIONS
ThreadTest(t) ==
    /\ th_pc[t] = "Test"
    /\ th_absent' = [th_absent EXCEPT ![t] =
                        RecoveredPair(th_text[t]) \notin Range(FAILED_ACTIONS)]
    /\ th_pc' = [th_pc EXCEPT ![t] = "Append"]
    /\ UNCHANGED <<FAILED_ACTIONS, th_text, th_result, th_steps, th_own>>
    /\ UNCHANGED exceptThreads

\* Line 36: FAILED_ACTIONS.append(...) when the test said so.
ThreadAppend(t) ==
    /\ th_pc[t] = "Append"
    /\ FAILED_ACTIONS' = IF th_absent[t]
                         THEN Append(FAILED_ACTIONS, RecoveredPair(th_text[t]))
                         ELSE FAILED_ACTIONS
    /\ th_own' = [th_own EXCEPT ![t] = RecordFailure(@, RecoveredPair(th_text[t]))]
    /\ th_pc' = [th_pc EXCEPT ![t] = "Ceiling"]
    /\ UNCHANGED <<th_text, th_absent, th_result, th_steps>>
    /\ UNCHANGED exceptThreads

\* Lines 38-44: the length of FAILED_ACTIONS decides.
ThreadCeiling(t) ==
    /\ th_pc[t] = "Ceiling"
    /\ LET r == RecoveredResult(FAILED_ACTIONS, RecoveredAction(th_text[t]),
                                RecoveredInput(th_text[t]))
       IN  /\ th_result' = [th_result EXCEPT ![t] = r]
           /\ th_pc' = [th_pc EXCEPT ![t] =
                  IF r.kind = "AgentAction" THEN "Acting" ELSE "Finished"]
    /\ UNCHANGED <<FAILED_ACTIONS, th_text, th_absent, th_steps, th_own>>
    /\ UNCHANGED exceptThreads

\* The tool returns an observation and the loop goes on.
ThreadToolReturns(t) ==
    /\ th_pc[t] = "Acting"
    /\ th_pc' = [th_pc EXCEPT ![t] = "Thinking"]
    /\ UNCHANGED <<FAILED_ACTIONS, th_text, th_absent, th_result, th_steps,
                   th_own>>
    /\ UNCHANGED exceptThreads

\* The tool raises, or the iteration limit is reached: agent.run is over.
ThreadRunEnds(t) ==
    /\ \/ th_pc[t] = "Acting"
       \/ th_pc[t] = "Thinking" /\ th_steps[t] = MaxThreadSteps
    /\ th_result' = [th_result EXCEPT ![t] =
           IF th_pc[t] = "Acting" THEN Raised("Exception")
           ELSE AgentFinish(<<"Agent stopped due to iteration limit or time limit.">>)]
    /\ th_pc' = [th_pc EXCEPT ![t] = "Finished"]
    /\ UNCHANGED <<FAILED_ACTIONS, th_text, th_absent, th_steps, th_own>>
    /\ UNCHANGED exceptThreads

ThreadsNext ==
    \/ \E t \in Threads : ThreadStart(t)
    \/ \E t \in Threads : ThreadParsePlain(t)
    \/ \E t \in Threads : ThreadParseRecover(t)
    \/ \E t \in Threads : ThreadTest(t)
    \/ \E t \in Threads : ThreadAppend(t)
    \/ \E t \in Threads : ThreadCeiling(t)
    \/ \E t \in Threads : ThreadToolReturns(t)
    \/ \E t \in Threads : ThreadRunEnds(t)

(***************************************************************************)
(* Specifications, one per component.                                      *)
(***************************************************************************)
InitChunk ==
    /\ ChunkInit
    /\ NormParked
    /\ IdParked
    /\ AgentParked
    /\ ParseParked
    /\ RunParked
    /\ IngestParked
    /\ PdfParked
    /\ EstParked
    /\ ToolsParked
    /\ EmbedParked
    /\ RaceParked
    /\ ThreadsParked

SpecChunk == InitChunk /\ [][ChunkNext]_vars

InitNorm ==
    /\ NormInit
    /\ ChunkParked
    /\ IdParked
    /\ AgentParked
    /\ ParseParked
    /\ RunParked
    /\ IngestParked
    /\ PdfParked
    /\ EstParked
    /\ ToolsParked
    /\ EmbedParked
    /\ RaceParked
    /\ ThreadsParked

SpecNorm == InitNorm /\ [][NormNext]_vars

InitId ==
    /\ IdInit
    /\ ChunkParked
    /\ NormParked
    /\ AgentParked
    /\ ParseParked
    /\ RunParked
    /\ IngestParked
    /\ PdfParked
    /\ EstParked
    /\ ToolsParked
    /\ EmbedParked
    /\ RaceParked
    /\ ThreadsParked

SpecId == InitId /\ [][IdNext]_vars

InitAgent ==
    /\ AgentInit
    /\ ChunkParked
    /\ NormParked
    /\ IdParked
    /\ ParseParked
    /\ RunParked
    /\ IngestParked
    /\ PdfParked
    /\ EstParked
    /\ ToolsParked
    /\ EmbedParked
    /\ RaceParked
    /\ ThreadsParked

SpecAgent == InitAgent /\ [][AgentNext]_vars

InitParse ==
    /\ ParseInit
    /\ ChunkParked
    /\ NormParked
    /\ IdParked
    /\ RunParked
    /\ IngestParked
    /\ PdfParked
    /\ EstParked
    /\ ToolsParked
    /\ EmbedParked
    /\ RaceParked
    /\ ThreadsParked

SpecParse == InitParse /\ [][ParseNext]_vars

InitRun ==
    /\ RunInit
    /\ ChunkParked
    /\ NormParked
    /\ IdParked
    /\ AgentParked
    /\ ParseParked
    /\ IngestParked
    /\ PdfParked
    /\ EstParked
    /\ ToolsParked
    /\ EmbedParked
    /\ RaceParked
    /\ ThreadsParked

SpecRun == InitRun /\ [][RunNext]_vars

InitIngest ==
    /\ IngestInit
    /\ ChunkParked
    /\ NormParked
    /\ IdParked
    /\ AgentParked
    /\ ParseParked
    /\ RunParked
    /\ PdfParked
    /\ EstParked
    /\ ToolsParked
    /\ EmbedParked
    /\ RaceParked
    /\ ThreadsParked

SpecIngest == InitIngest /\ [][IngestNext]_vars

InitPdf ==
    /\ PdfInit
    /\ ChunkParked
    /\ NormParked
    /\ IdParked
    /\ AgentParked
    /\ ParseParked
    /\ RunParked
    /\ IngestParked
    /\ EstParked
    /\ ToolsParked
    /\ EmbedParked
    /\ RaceParked
    /\ ThreadsParked

SpecPdf == InitPdf /\ [][PdfNext]_vars

InitEst ==
    /\ EstInit
    /\ ChunkParked
    /\ NormParked
    /\ IdParked
    /\ AgentParked
    /\ ParseParked
    /\ RunParked
    /\ IngestParked
    /\ PdfParked
    /\ ToolsParked
    /\ EmbedParked
    /\ RaceParked
    /\ ThreadsParked

SpecEst == InitEst /\ [][EstNext]_vars

InitTools ==
    /\ ToolsInit
    /\ ChunkParked
    /\ NormParked
    /\ IdParked
    /\ AgentParked
    /\ ParseParked
    /\ RunParked
    /\ IngestParked
    /\ PdfParked
    /\ EstParked
    /\ EmbedParked
    /\ RaceParked
    /\ ThreadsParked

SpecTools == InitTools /\ [][ToolsNext]_vars

InitEmbed ==
    /\ EmbedInit
    /\ ChunkParked
    /\ NormParked
    /\ IdParked
    /\ AgentParked
    /\ ParseParked
    /\ RunParked
    /\ IngestParked
    /\ PdfParked
    /\ EstParked
    /\ ToolsParked
    /\ RaceParked
    /\ ThreadsParked

SpecEmbed == InitEmbed /\ [][EmbedNext]_vars

InitRace ==
    /\ RaceInit
    /\ ChunkParked
    /\ NormParked
    /\ IdParked
    /\ AgentParked
    /\ ParseParked
    /\ RunParked
    /\ IngestParked
    /\ PdfParked
    /\ EstParked
    /\ ToolsParked
    /\ EmbedParked
    /\ ThreadsParked

SpecRace == InitRace /\ [][RaceNext]_vars

InitThreads ==
    /\ ThreadsInit
    /\ ChunkParked
    /\ NormParked
    /\ IdParked
    /\ ParseParked
    /\ RunParked
    /\ IngestParked
    /\ PdfParked
    /\ EstParked
    /\ ToolsParked
    /\ EmbedParked
    /\ RaceParked

SpecThreads == InitThreads /\ [][ThreadsNext]_vars

\* The whole program starts with the ingestion of its datasets.
Init == InitIngest

Next == IngestNext

Spec == SpecIngest

(***************************************************************************)
(* Claims about parallel queries and the failure memory.                   *)
(***************************************************************************)
\* The query of thread t was ended with the ceiling diagnostic.
EndedAtCeiling(t) ==
    /\ th_pc[t] = "Finished"
    /\ th_result[t] = AgentFinish(TooManyFailures)

\* C21 (failure memory scoped per agent-loop instance): a query is ended
\* with the ceiling diagnostic only when the failures that its own model
\* outputs recorded reach MAX_FAILURES, whatever other queries recorded.
C21_CeilingFromOwnFailures ==
    \A t \in Threads : EndedAtCeiling(t) => Len(th_own[t]) >= MAX_FAILURES

\* C21 witness: a query whose own outputs failed once was ended with the
\* ceiling diagnostic at its first step, the other query having failed twice.
C21_Witness ==
    \E t, u \in Threads :
        /\ t # u
        /\ EndedAtCeiling(t)
        /\ th_steps[t] = 1
        /\ Len(th_own[t]) = 1
        /\ Len(th_own[u]) = 2

\* C23 (each failed pair recorded once under parallel queries): no pair is
\* twice in FAILED_ACTIONS, however the threads of two queries interleave.
C23_RecordedOnce ==
    \A i, j \in 1..Len(FAILED_ACTIONS) :
        i # j => FAILED_ACTIONS[i] # FAILED_ACTIONS[j]

\* C23 witness: both threads recovered the same pair, both found it absent
\* before either appended, and the list holds it twice.
C23_Witness ==
    /\ th_text[1] = th_text[2]
    /\ \A t \in Threads : th_pc[t] = "Ceiling" /\ th_absent[t]
    /\ Len(FAILED_ACTIONS) = 2
    /\ FAILED_ACTIONS[1] = FAILED_ACTIONS[2]

(***************************************************************************)
(* Claims about racing ingestions.                                         *)
(***************************************************************************)
\* The ids of a chunk sequence.
IdsOf(chunks) == {Uid(chunks[i]) : i \in 1..Len(chunks)}

\* Both calls are over and one of them at least returned.
RaceOver ==
    /\ \A c \in Calls : rc_pc[c] \in {"returned", "raised"}
    /\ \E c \in Calls : rc_pc[c] = "returned"

\* No id has two objects in the store.
OneObjectPerId == \A id \in DOMAIN rc_store : rc_store[id] = 1

\* C20 (racing ingestions converge): when both calls are over, one of them
\* at least having returned, the stored ids are those that a single ingestion
\* of the file produces, those of the common chunk sequence when both calls
\* extracted the same one, and no id has two stored objects.
C20_RaceConverges ==
    RaceOver =>
        /\ \E chunks \in ParseOutcomes(rc_file, rc_use_mcp) :
               DOMAIN rc_store = IdsOf(chunks)
        /\ rc_chunks[1] = rc_chunks[2] =>
               DOMAIN rc_store = IdsOf(rc_chunks[1])
        /\ OneObjectPerId

\* C20 witness: both calls ran all their existence checks on the empty
\* collection, both inserted every chunk, and the store holds each id once.
C20_Witness ==
    /\ \A c \in Calls : rc_pc[c] = "returned"
    /\ rc_chunks[1] = rc_chunks[2]
    /\ Len(rc_chunks[1]) >= 2
    /\ \A c \in Calls : Len(rc_ids[c]) = Len(rc_chunks[c])
    /\ Cardinality(DOMAIN rc_store) = Len(rc_chunks[1])
    /\ OneObjectPerId

(***************************************************************************)
(* Claims about the embedding retry and cache.                             *)
(***************************************************************************)
\* C17 (embedding retry is bounded): a call of _safe_embed makes at most
\* self.retries provider calls; a call that raises leaves the cache as it
\* found it; a call that got an embedding leaves it in the cache; and a
\* call for a text whose normalized form was embedded before returns the
\* first vector returned for it, with no provider call.
C17_BoundedRetryAndCache ==
    /\ em_calls <= em_retries
    /\ em_result.kind \in {"ValueError", "RuntimeError"} =>
           em_cache = em_before
    /\ em_result.kind = "RuntimeError" => em_calls = em_retries
    /\ em_result.kind = "returned" =>
           /\ EmbedKey(em_text) \in DOMAIN em_cache
           /\ em_cache[EmbedKey(em_text)] = em_result.emb
           /\ em_result.emb = em_first[EmbedKey(em_text)]
           /\ EmbedKey(em_text) \in DOMAIN em_before => em_calls = 0

\* C17 witness: a text was embedded after a failed attempt, and a later
\* call, for a text that differs from it before normalization, was served
\* from the cache without a provider call.
C17_Witness ==
    /\ em_n >= 2
    /\ em_result.kind = "returned"
    /\ EmbedKey(em_text) \in DOMAIN em_before
    /\ em_text # EmbedKey(em_text)
    /\ em_calls = 0

\* C17 second witness: every attempt of a call failed and it raised.
C17_WitnessExhausted ==
    /\ em_result.kind = "RuntimeError"
    /\ em_calls = em_retries
    /\ em_retries = MaxRetries

(***************************************************************************)
(* Claims about the tool registry.                                         *)
(***************************************************************************)
\* The topics of the datasets are pairwise distinct.
DistinctTopics ==
    \A i, j \in 1..Len(tl_datasets) :
        i # j => tl_datasets[i][2] # tl_datasets[j][2]

\* No two tools of the registry share a name.
UniqueNames ==
    \A i, j \in 1..Len(tl_tools) : i # j => tl_tools[i] # tl_tools[j]

\* C16 (tool names are unique): for distinct topics, no two tools returned
\* by setup_tools_async share a name.
C16_ToolNamesUnique ==
    (tl_pc = "done" /\ DistinctTopics) => UniqueNames

\* C16 witness: two distinct topics that differ only in the case of their
\* letters were registered, and two tools got one name.
C16_Witness ==
    /\ tl_pc = "done"
    /\ DistinctTopics
    /\ Len(tl_datasets) = 2
    /\ \E i, j \in 1..Len(tl_tools) : i # j /\ tl_tools[i] = tl_tools[j]

(***************************************************************************)
(* Claims about the token estimator.                                       *)
(***************************************************************************)
\* The number of whitespace-delimited tokens: the positions where a word
\* begins.
WordCount(text) ==
    Cardinality({i \in 1..Len(text) :
                    text[i] # "SP" /\ (i = 1 \/ text[i - 1] = "SP")})

\* 13 * w / 10 rounded to the nearest integer.
NearestOf13Tenths(w) ==
    CHOOSE q \in 0..(2 * w + 1) : 10 * q - 5 <= 13 * w /\ 13 * w < 10 * q + 5

\* 13 * w / 10 rounded down.
FloorOf13Tenths(w) ==
    CHOOSE q \in 0..(2 * w + 1) : 10 * q <= 13 * w /\ 13 * w < 10 * (q + 1)

\* C15 as stated (token estimator): _estimate_tokens(text) is
\* max(1, round(word_count(text) * 1.3)).
C15_EstimateIsRounded ==
    es_pc = "done" =>
        es_tokens = Max(1, NearestOf13Tenths(WordCount(es_text)))

\* C15 as amended: _estimate_tokens(text) is max(1, floor(word_count(text) *
\* 1.3)): the product is truncated, not rounded.
C15_EstimateIsTruncated ==
    es_pc = "done" =>
        es_tokens = Max(1, FloorOf13Tenths(WordCount(es_text)))

\* C15 witness: a text of two words, whose product 2.6 rounds to 3, was
\* estimated at 2.
C15_Witness ==
    /\ es_pc = "done"
    /\ WordCount(es_text) = 2
    /\ es_tokens = 2

(***************************************************************************)
(* Claims about page-aware chunking.                                       *)
(***************************************************************************)
\* The chunks of page p, in the order in which they were returned.
ChunksOfPage(p) ==
    LET idx == {i \in 1..Len(pg_chunks) : pg_chunks[i].page = <<p>>}
        nth(k) == CHOOSE i \in idx : Cardinality({j \in idx : j < i}) = k - 1
    IN  [k \in 1..Cardinality(idx) |-> pg_chunks[nth(k)]]

\* The sum of the estimates of the sentences of page p.
RECURSIVE PageEstimate(_)
PageEstimate(sentences) ==
    IF sentences = <<>> THEN 0
    ELSE Max(1, (13 * Len(Head(sentences))) \div 10) + PageEstimate(Tail(sentences))

SecondRunReturned ==
    /\ ig_run = 2
    /\ ig_pc = "returned"
    /\ ig_history[1].outcome = "returned"

C11_FallbackEqualsLocal ==
    ig_parser = "fallback" => ig_chunks = ig_file.local

\* C11 witness: the remote attempt failed after it had appended chunks, and
\* the returned sequence is longer than the local strategy's.
C11_Witness ==
    /\ ig_parser = "fallback"
    /\ ig_file.local # <<>>
    /\ Len(ig_chunks) > Len(ig_file.local)
    /\ ig_chunks # ig_file.local

\* The collection and the stored ids as they were when the current call began.
CollectionAtStart == IF ig_run = 1 THEN FALSE ELSE ig_history[1].collection

StoreAtStart == IF ig_run = 1 THEN {} ELSE ig_history[1].store

\* C13 (no partial commit on an unavailable store): if the store is not ready
\* when inject_dataset connects, the call fails and has issued no collection
\* creation, no existence check and no insert.
C13_NotReadyCommitsNothing ==
    (~ig_ready /\ ig_pc \notin {"parked", "parse", "connect"}) =>
        /\ ig_pc = "raised"
        /\ ig_collection = CollectionAtStart
        /\ Len(ig_results) = 0
        /\ ig_ids = <<>>
        /\ ig_addCalls = 0
        /\ ig_store = StoreAtStart

\* C13 witness: a file with chunks was parsed, the store was not ready at the
\* connection and the call has failed.
C13_Witness ==
    /\ ~ig_ready
    /\ ig_pc = "raised"
    /\ ig_run = 1
    /\ Len(ig_chunks) >= 2
    /\ ig_collection = FALSE
    /\ ig_store = {}

\* Every existence check of the call in progress has resolved.
AllChecksResolved ==
    /\ ig_pc \in {"insert", "returned", "raised"}
    /\ Len(ig_results) = Len(ig_chunks)

\* At most one add_texts per call, and none before the checks are gathered.
OneInsertAfterFanIn ==
    /\ ig_addCalls <= 1
    /\ ig_addCalls = 1 =>
           /\ AllChecksResolved
           /\ ig_pc \in {"returned", "raised"}
           /\ ig_ids # <<>>

\* C18 as stated (fan-in before insert): add_texts is issued only after every
\* existence check of the call has resolved, at most once per call, and not
\* at all when the id of every chunk was already in the store.
C18_FanInBeforeInsert ==
    /\ OneInsertAfterFanIn
    /\ (ig_pc = "returned"
        /\ \A i \in 1..Len(ig_chunks) : Uid(ig_chunks[i]) \in StoreAtStart)
           => ig_addCalls = 0

\* C18 as amended: add_texts is issued only after every existence check of
\* the call has resolved, at most once per call, with exactly the ids whose
\* check did not report them present, and not at all when every check
\* reported its id present; a check that raised counts as not present.
C18_FanInOnReportedResults ==
    /\ OneInsertAfterFanIn
    /\ ig_pc = "returned" =>
           /\ Len(ig_ids) =
                  Cardinality({i \in 1..Len(ig_chunks) : ~ig_results[i]})
           /\ \A i \in 1..Len(ig_chunks) :
                  ig_results[i] <=>
                      (Uid(ig_chunks[i]) \in StoreAtStart /\ i \notin ig_raised)
           /\ (\A i \in 1..Len(ig_chunks) : ig_results[i]) <=> ig_addCalls = 0

\* C18 witness: the second call found every id in the store but one of its
\* checks raised, and it issued one insert, for that one chunk, after all the
\* checks had resolved.
C18_Witness ==
    /\ ig_run = 2
    /\ ig_pc = "returned"
    /\ Len(ig_chunks) >= 2
    /\ \A i \in 1..Len(ig_chunks) : Uid(ig_chunks[i]) \in StoreAtStart
    /\ Cardinality(ig_raised) = 1
    /\ Len(ig_results) = Len(ig_chunks)
    /\ Len(ig_ids) = 1
    /\ ig_addCalls = 1

\* The ids passed to add_texts are pairwise distinct.
DistinctIds ==
    \A i, j \in 1..Len(ig_ids) : i # j => ig_ids[i] # ig_ids[j]

\* C19 (no duplicate inserts within one call): the list of ids that one
\* inject_dataset call passes to add_texts never holds the same id twice,
\* whichever strategy parsed the file.
C19_NoDuplicateIds ==
    ig_addCalls = 1 => DistinctIds

\* C19 witness: on the first call the remote parse failed part-way, PyPDF2
\* parsed the file again, and add_texts was called with an id that it holds
\* twice.
C19_Witness ==
    /\ ig_run = 1
    /\ ig_parser = "fallback"
    /\ ig_pc = "returned"
    /\ ig_addCalls = 1
    /\ ~DistinctIds

\* Second C19 witness: the remote response named one page number twice and
\* add_texts was called with an id that it holds twice.
C19_WitnessRepeatedPage ==
    /\ ig_run = 1
    /\ ig_parser = "remote"
    /\ ig_pc = "returned"
    /\ ig_addCalls = 1
    /\ ~DistinctIds

\* C26 (an existence check that raises is treated as absent): the check of
\* a chunk whose lookup raised is False, the chunk's id is among the ids
\* given to add_texts and is stored once the call has returned, and the call
\* fails only if add_texts itself fails.
C26_RaisedCheckIsAbsent ==
    ig_raised # {} =>
        /\ ig_pc \in {"insert", "returned", "raised"}
        /\ ig_pc = "raised" => ig_addCalls = 1
        /\ \A i \in ig_raised :
              /\ ~ig_results[i]
              /\ Uid(ig_chunks[i]) \in Range(ig_ids)
              /\ ig_pc = "returned" => Uid(ig_chunks[i]) \in ig_store

\* C26 witness: on the second call the lookup of a stored id raised; the id
\* was given to add_texts again and the call returned.
C26_Witness ==
    /\ ig_run = 2
    /\ ig_pc = "returned"
    /\ \E i \in ig_raised :
          /\ Uid(ig_chunks[i]) \in StoreAtStart
          /\ ig_ids = <<Uid(ig_chunks[i])>>

(***************************************************************************)
(* Claims about the forgiving parser and the agent loop.                   *)
(***************************************************************************)
\* The strict parser rejects the text.
StrictRejects(text) == StrictParse(text).kind = "OutputParserException"

\* The text after the last occurrence of marker m.
AfterLastMarker(text, m) ==
    LET last == CHOOSE i \in 1..Len(text) :
                    text[i] = m /\ \A j \in (i + 1)..Len(text) : text[j] # m
    IN  [k \in 1..(Len(text) - last) |-> text[last + k]]

\* The first line after the first occurrence of marker m.
FirstLineAfter(text, m) ==
    LET first == CHOOSE i \in 1..Len(text) :
                     text[i] = m /\ \A j \in 1..(i - 1) : text[j] # m
        stop == CHOOSE e \in first..Len(text) :
                    /\ \A j \in (first + 1)..e : text[j] # "LF"
                    /\ (e = Len(text) \/ text[e + 1] = "LF")
    IN  [k \in 1..(stop - first) |-> text[first + k]]

\* The action the claim describes: tool and input are the first line after
\* each marker, trimmed, the input without its surrounding double quotes.
DescribedAction(text) ==
    AgentAction(Strip(FirstLineAfter(text, "ACT")),
                StripSet(Strip(FirstLineAfter(text, "AIN")), {"Q"}))

\* The text after the first occurrence of marker m, up to the next occurrence
\* of m or the end of the line, whichever comes first.
FieldAfter(text, m) ==
    LET first == CHOOSE i \in 1..Len(text) :
                     text[i] = m /\ \A j \in 1..(i - 1) : text[j] # m
        stop == CHOOSE e \in first..Len(text) :
                    /\ \A j \in (first + 1)..e : text[j] \notin {"LF", m}
                    /\ (e = Len(text) \/ text[e + 1] \in {"LF", m})
    IN  [k \in 1..(stop - first) |-> text[first + k]]

\* The action of the amended claim: tool and input are the fields after each
\* marker, trimmed, the input without its surrounding double quotes.
FieldAction(text) ==
    AgentAction(Strip(FieldAfter(text, "ACT")),
                StripSet(Strip(FieldAfter(text, "AIN")), {"Q"}))

\* The failure memory once the pair of FieldAction has been recorded if absent.
MemoryAfter(before, text) ==
    LET pair == <<FieldAction(text).tool, FieldAction(text).tool_input>>
    IN  IF \E i \in 1..Len(before) : before[i] = pair
        THEN before ELSE before \o <<pair>>

\* C6 as stated (recovery order): for an output the strict parser rejects,
\* (a) with a "Final Answer:" marker the result is Finished with the text after
\* the marker, (b) else with both "Action:" and "Action Input:" the result is
\* the described Action, (c) otherwise Finished with the whole trimmed text.
C6_RecoveryOrder ==
    (ps_pc = "done" /\ StrictRejects(ps_text)) =>
        IF "FA" \in Range(ps_text)
        THEN ps_result = AgentFinish(Strip(AfterLastMarker(ps_text, "FA")))
        ELSE IF "ACT" \in Range(ps_text) /\ "AIN" \in Range(ps_text)
        THEN ps_result = DescribedAction(ps_text)
        ELSE ps_result = AgentFinish(Strip(ps_text))

\* C6 as amended: as stated, except that in case (b) tool and input are the
\* text after the first occurrence of each marker up to the next occurrence of
\* that marker or the end of the line, the pair is recorded in the failure
\* memory if absent and, when the memory then holds MAX_FAILURES entries or
\* more, the result is Finished with the fixed diagnostic message instead of
\* the Action.
C6_RecoveryOrderWithCeiling ==
    (ps_pc = "done" /\ StrictRejects(ps_text)) =>
        IF "FA" \in Range(ps_text)
        THEN /\ ps_result = AgentFinish(Strip(AfterLastMarker(ps_text, "FA")))
             /\ FAILED_ACTIONS = ps_before
        ELSE IF "ACT" \in Range(ps_text) /\ "AIN" \in Range(ps_text)
        THEN /\ FAILED_ACTIONS = MemoryAfter(ps_before, ps_text)
             /\ ps_result = IF Len(MemoryAfter(ps_before, ps_text)) >= MAX_FAILURES
                            THEN AgentFinish(TooManyFailures)
                            ELSE FieldAction(ps_text)
        ELSE /\ ps_result = AgentFinish(Strip(ps_text))
             /\ FAILED_ACTIONS = ps_before

\* C6 witness: a rejected output with both action markers and no final answer
\* was parsed, its pair was recorded as the third entry and the result is the
\* diagnostic finish.
C6_Witness ==
    /\ ps_pc = "done"
    /\ StrictRejects(ps_text)
    /\ "FA" \notin Range(ps_text)
    /\ "ACT" \in Range(ps_text) /\ "AIN" \in Range(ps_text)
    /\ Len(ps_before) = MAX_FAILURES - 1
    /\ Len(FAILED_ACTIONS) = MAX_FAILURES
    /\ ps_result = AgentFinish(TooManyFailures)

\* C7 (the parser never raises): for every model output and every state of the
\* failure memory, parse returns an Action or a Finished result.
C7_ParseNeverRaises ==
    ps_pc = "done" => ps_result.kind \in {"AgentAction", "AgentFinish"}

\* C7 witness: an output that the strict parser rejects and that holds an
\* "Action:" marker without "Action Input:" was parsed and gave a result.
C7_Witness ==
    /\ ps_pc = "done"
    /\ StrictRejects(ps_text)
    /\ "ACT" \in Range(ps_text) /\ "AIN" \notin Range(ps_text)
    /\ ps_result.kind = "AgentFinish"

\* C4 (failure ceiling): once FAILED_ACTIONS holds three entries, the next step
\* of the agent loop ends in Finished with the fixed diagnostic message,
\* whatever the model outputs; no tool is invoked any more.
C4_CeilingEnforced ==
    [][(ag_pc = "Thinking" /\ Len(FAILED_ACTIONS) >= MAX_FAILURES
            /\ ag_steps' = ag_steps + 1)
        => (ag_pc' = "Finished" /\ ag_result' = AgentFinish(TooManyFailures))]_vars

\* C4 witness: a tool is about to be invoked while FAILED_ACTIONS holds three
\* entries.
C4_Witness ==
    /\ ag_pc = "Acting"
    /\ Len(FAILED_ACTIONS) >= MAX_FAILURES

\* C5 (bounded failure memory): in every reachable state FAILED_ACTIONS holds
\* at most MAX_FAILURES entries.
C5_FailureMemoryBounded == Len(FAILED_ACTIONS) <= MAX_FAILURES

\* C5 witness: the loop was ended by the diagnostic finish with the memory at
\* the ceiling, and a later query is being processed.
C5_Witness ==
    /\ ag_queries = 2
    /\ ag_pc = "Thinking"
    /\ Len(FAILED_ACTIONS) = MAX_FAILURES

(***************************************************************************)
(* Claims about the top-level fallback.                                    *)
(***************************************************************************)
\* The response begins with an error marker: trimmed and in lower case it
\* begins with "error" or with "could not parse llm output".
BeginsWithErrorMarker(response) ==
    LET t == StripLower(response)
    IN  Len(t) >= 1 /\ t[1] \in {"error", "could not parse llm output"}

\* C8 (top-level fallback): the agent loop is attempted exactly once; if its
\* result is empty or begins with an error marker, or the loop raised,
\* llm.invoke is called exactly once and its result is surfaced ("Total
\* failure: ..." if it raises); otherwise llm.invoke is not called and the
\* loop's result is surfaced.
C8_TopLevelFallback ==
    rn_pc = "done" =>
        /\ rn_agentRuns = 1
        /\ IF \/ rn_loop.outcome = "raised"
              \/ rn_loop.value = <<>>
              \/ BeginsWithErrorMarker(rn_loop.value)
           THEN /\ rn_llmCalls = 1
                /\ rn_llm.outcome = "returned" => rn_response = rn_llm.value
                /\ rn_llm.outcome = "raised" =>
                       rn_response = <<"Total failure: ">> \o rn_llm.value
           ELSE /\ rn_llmCalls = 0
                /\ rn_response = rn_loop.value

\* C8 witness: agent.run returned the empty string, llm.invoke was not called
\* and the empty string was surfaced.
C8_Witness ==
    /\ rn_pc = "done"
    /\ rn_loop = [outcome |-> "returned", value |-> <<>>]
    /\ rn_llmCalls = 0
    /\ rn_response = <<>>

\* C12 (tool errors become observations): a tool that raises during an agent
\* step does not end the loop; the step after the tool's invocation is the
\* next Thinking step.
C12_ToolErrorContinues ==
    [][ag_pc = "Acting" => ag_pc' = "Thinking"]_vars

\* C12 witness: a tool raised and its exception left the agent loop.
C12_Witness ==
    /\ ag_pc = "Raised"
    /\ ag_result = Raised("Exception")

\* A step in which the tool of the pending action raises.
ToolErrorStep == ag_pc = "Acting" /\ ag_pc' = "Raised"

\* C22 (failure recording is complete): after a step that ends in a tool
\* error the pair (tool, input) of the action is in FAILED_ACTIONS, after a
\* step that recovers an action from a malformed output its pair is in
\* FAILED_ACTIONS, and FAILED_ACTIONS grows in no other step.
C22_FailuresRecorded ==
    [][/\ ToolErrorStep =>
              <<ag_result.tool, ag_result.tool_input>> \in Range(FAILED_ACTIONS')
       /\ (ag_pc = "Thinking" /\ ag_pc' = "Acting"
           /\ FAILED_ACTIONS' # FAILED_ACTIONS) =>
              <<ag_result'.tool, ag_result'.tool_input>> \in Range(FAILED_ACTIONS')
       /\ FAILED_ACTIONS' # FAILED_ACTIONS =>
              (ag_pc = "Thinking" \/ ToolErrorStep)]_vars

\* C22 witness: the tool of a strictly parsed action raised in the first step
\* of the first query and the failure memory is still empty.
C22_Witness ==
    /\ ag_pc = "Raised"
    /\ ag_result = Raised("Exception")
    /\ ag_queries = 1
    /\ ag_steps = 1
    /\ FAILED_ACTIONS = <<>>

(***************************************************************************)
(* Claims about the deterministic identifier.                              *)
(***************************************************************************)
\* C10 as stated (deterministic identifier): identical tuples yield identical
\* ids, and changing any one of source, page, index, content changes the id,
\* also when page changes between null and a number.
C10_AnyChangeChangesId ==
    id_pc = "done" =>
        /\ (id_changed = "none" => id_uidA = id_uidB)
        /\ (id_changed # "none" =>
                IdSeed(id_a) # IdSeed(id_b) /\ id_uidA # id_uidB)

\* The two pages are null and 0, in either order.
NullAndZero == {id_a.page, id_b.page} = {None, Some(0)}

\* C10 as amended: the two ids are equal exactly when the tuples are equal or
\* differ only in page, one page being null and the other 0.
C10_IdChangesUnlessNullVsZero ==
    id_pc = "done" =>
        (id_uidA = id_uidB) <=> (id_changed = "none" \/ (id_changed = "page" /\ NullAndZero))

\* The page changed between null and a number, and both ids are computed.
C10_Witness ==
    /\ id_pc = "done"
    /\ id_changed = "page"
    /\ id_a.page = None
    /\ id_b.page = Some(1)
    /\ id_uidA # id_uidB

(***************************************************************************)
(* Claims about the normalizer.                                            *)
(***************************************************************************)
\* C9 (normalizer idempotence): for every text t,
\* _normalize_page_text(_normalize_page_text(t)) = _normalize_page_text(t).
C9_NormalizerIdempotent ==
    nm_pc = "twice" => nm_twice = nm_once

\* A text with two hyphenated line breaks, normalized twice.
C9_Witness ==
    /\ nm_pc = "twice"
    /\ Cardinality({i \in 1..(Len(nm_raw) - 1) :
                        nm_raw[i] = "-" /\ nm_raw[i + 1] = "LF"}) >= 2

(***************************************************************************)
(* Claims about the chunker.                                               *)
(***************************************************************************)
\* The chunk consists of one sentence whose own estimate exceeds the budget.
SingleOversized(c) ==
    /\ Len(c.sents) = 1
    /\ EstimateTokens(ck_sentences[c.sents[1]]) > ck_max

\* The positions first .. last of the input, in order.
Run(first, last) == [k \in 1..(last - first + 1) |-> first + k - 1]

\* C25 (no sentence is lost or truncated): the content of every chunk is the
\* joined text of a contiguous run of input sentences in input order, and
\* every input sentence is whole in at least one chunk.
C25_NoSentenceLost ==
    ck_pc = "done" =>
        /\ \A i \in 1..Len(ck_chunks) :
              \E first, last \in 1..Len(ck_sentences) :
                  /\ first <= last
                  /\ ck_chunks[i].sents = Run(first, last)
                  /\ ck_chunks[i].content =
                         JoinSentences(ck_sentences, Run(first, last))
        /\ \A k \in 1..Len(ck_sentences) :
              \E i \in 1..Len(ck_chunks) : k \in Range(ck_chunks[i].sents)

\* C25 witness: four sentences were chunked into three chunks, one of them a
\* run of two sentences, and a sentence is in two chunks.
C25_Witness ==
    /\ ck_pc = "done"
    /\ Len(ck_sentences) = 4
    /\ Len(ck_chunks) = 3
    /\ \E i \in 1..3 : Len(ck_chunks[i].sents) = 2
    /\ \E i, j \in 1..3 :
          i # j /\ Range(ck_chunks[i].sents) \cap Range(ck_chunks[j].sents) # {}

\* C27 (chunks are not disjoint even with overlap_tokens = 0): at every
\* boundary the chunk that follows holds the last sentence of the chunk
\* before it and, right after it, the sentence that triggered the boundary;
\* with overlap_tokens = 0 it starts with that last sentence.
C27_NeverDisjoint ==
    ck_pc = "done" =>
        \A i \in 1..(Len(ck_chunks) - 1) :
            LET prev == ck_chunks[i].sents
                next == ck_chunks[i + 1].sents
            IN  /\ \E k \in 1..(Len(next) - 1) :
                      next[k] = Last(prev) /\ next[k + 1] = Last(prev) + 1
                /\ ck_overlap = 0 =>
                      (next[1] = Last(prev) /\ next[2] = Last(prev) + 1)

\* C27 witness: with overlap_tokens = 0 three chunks were produced and each
\* of the last two starts with the last sentence of the chunk before it.
C27_Witness ==
    /\ ck_pc = "done"
    /\ ck_overlap = 0
    /\ Len(ck_chunks) >= 3
    /\ \A i \in 1..(Len(ck_chunks) - 1) :
          ck_chunks[i + 1].sents[1] = Last(ck_chunks[i].sents)

\* C24 (the chunker terminates without error): for every sentence sequence,
\* budget and overlap, overlap_tokens >= max_tokens and budgets and overlaps
\* below 1 included, the call has a value; an empty sequence yields no chunk, a non-empty one at least one,
\* and there are never more chunks than sentences.
C24_TerminatesBounded ==
    /\ ck_pc = "ready" =>
           \A m \in {-1, 0, ck_max}, o \in {-1, ck_overlap} :
               LET chunks == ChunkSentences(ck_sentences, m, o)
               IN  /\ Len(chunks) \in 0..Len(ck_sentences)
                   /\ ck_sentences = <<>> <=> chunks = <<>>
    /\ ck_pc = "done" =>
           /\ Len(ck_chunks) <= Len(ck_sentences)
           /\ ck_sentences = <<>> <=> ck_chunks = <<>>

\* C24 witness: with an overlap not below the budget, at least three
\* sentences were chunked into as many chunks as there are sentences.
C24_Witness ==
    /\ ck_pc = "done"
    /\ ck_overlap >= ck_max
    /\ Len(ck_sentences) >= 3
    /\ Len(ck_chunks) = Len(ck_sentences)

\* C2 (chunk budget): every produced chunk has tokens <= max_tokens unless it
\* is a single sentence whose own estimate exceeds max_tokens, and then its
\* tokens equal that sentence's estimate.
C2_ChunkBudget ==
    ck_pc = "done" =>
        \A i \in 1..Len(ck_chunks) :
            LET c == ck_chunks[i]
            IN  \/ c.tokens <= ck_max
                \/ /\ SingleOversized(c)
                   /\ c.tokens = EstimateTokens(ck_sentences[c.sents[1]])

\* A chunk of two or more sentences, seeded with an overlap, is produced.
C2_Witness ==
    /\ ck_pc = "done"
    /\ \E i \in 2..Len(ck_chunks) : Len(ck_chunks[i].sents) >= 2

\* Cumulative estimate of the last j sentences of a chunk.
TailEstimate(c, j) ==
    SumEstimates(ck_sentences, Drop(c.sents, Len(c.sents) - j))

\* The length of the shortest trailing run of c's sentences whose cumulative
\* estimate reaches o, or the number of c's sentences when none does.
ShortestTail(c, o) ==
    LET reaching == {j \in 1..Len(c.sents) : TailEstimate(c, j) >= o}
    IN  IF reaching = {} THEN Len(c.sents)
        ELSE CHOOSE j \in reaching : \A m \in reaching : j <= m

\* C3 (overlap contract): with overlap_tokens > 0, a chunk C2 that follows a
\* chunk C1 begins with the shortest trailing run of C1's sentences whose
\* cumulative estimate is >= overlap_tokens (all of C1 when C1 totals less),
\* followed by the sentence that triggered the boundary.
C3_OverlapContract ==
    (ck_pc = "done" /\ ck_overlap > 0) =>
        \A i \in 1..(Len(ck_chunks) - 1) :
            LET c1 == ck_chunks[i]
                c2 == ck_chunks[i + 1]
                k  == ShortestTail(c1, ck_overlap)
            IN  /\ Len(c2.sents) >= k + 1
                /\ Take(c2.sents, k) = Drop(c1.sents, Len(c1.sents) - k)
                /\ c2.sents[k + 1] = Last(c1.sents) + 1
                /\ Take(c2.content, Len(JoinSentences(ck_sentences, Take(c2.sents, k + 1))))
                     = JoinSentences(ck_sentences,
                           Drop(c1.sents, Len(c1.sents) - k) \o <<Last(c1.sents) + 1>>)

\* A boundary whose overlap window holds two sentences and is a proper suffix
\* of the previous chunk.
C3_Witness ==
    /\ ck_pc = "done"
    /\ ck_overlap > 0
    /\ \E i \in 1..(Len(ck_chunks) - 1) :
          /\ Len(ck_chunks[i].sents) = 3
          /\ ShortestTail(ck_chunks[i], ck_overlap) = 2

=============================================================================
